---- MODULE Spec2Model ----
(***************************************************************************)
(* Order-book engine of assets/orderbook: the per-symbol OrderBookManager  *)
(* (orderbook.py), the WallTracker (wall_tracker.py), the OFICalculator    *)
(* (ofi_calculator.py), the DataCollector read loop and message handler    *)
(* (collector.py) and the DaemonCollector writer (run_daemon.py).          *)
(*                                                                         *)
(* Prices and quantities are floats in the source; here they are integer   *)
(* ticks and lots, and a decimal string of the feed is mapped to its       *)
(* number by float (two spellings may give one number, some give none).    *)
(* time.time() is the variable now, in seconds.                            *)
(***************************************************************************)
EXTENDS Integers, Sequences, FiniteSets, TLC

VARIABLES
    symbols,       \* DataCollector.symbols: the configured symbols
    managers,      \* DataCollector.managers: symbol -> OrderBookManager
    accepted_u,    \* symbol -> u of the last event accepted since the last
                   \*   initialize (0: none yet)
    since_init,    \* symbol -> process_update calls since the last initialize
                   \*   (0, 1, or 2 for two and more)
    op,            \* the operation the last step performed
    sym,           \* the symbol the last step worked on
    event,         \* the depth event the last process_update was given
    ret,           \* how the last process_update ended
    line,          \* the source line at which the last process_update returned
    wall_trackers, \* DataCollector.wall_trackers: symbol -> WallTracker
    wall_events,   \* the events the last WallTracker.update returned
    orderbook,     \* the OrderBook the last WallTracker.update was given
    now,           \* time.time(), in seconds
    ofi_calculators, \* DataCollector.ofi_calculators: symbol -> OFICalculator
    running,       \* DataCollector._running
    pc,            \* where DataCollector.start() stands
    pending,       \* the symbols whose initialize() awaits its REST response
    callbacks,     \* DataCollector._callbacks, in registration order
    received,      \* callback -> the records it was called with, in order
    raised,        \* the callbacks that raised during the last dispatch
    accepted,      \* the accepted updates (symbol, u), in order
    calls,         \* the calls the last _handle_message made, in order
    msgs,          \* the number of messages handled
    desynced,      \* the symbols whose process_update returned False with no
                   \*   initialize() completed since
    ofi_returned,  \* the OFIState the last OFICalculator.update returned
    ofi_updates,   \* symbol -> update calls of its calculator since it was
                   \*   made or reset
    changes,       \* how often the calculator was shown a book other than
                   \*   the one before
    latest_data,   \* DaemonCollector.latest_data: symbol -> last record
    latest_file,   \* the file latest.json
    tmp_file,      \* the file latest.json.tmp
    _last_write_ts, \* DaemonCollector._last_write_ts
    _last_ofi_ts,  \* DaemonCollector._last_ofi_ts
    _last_wall_ts, \* DaemonCollector._last_wall_ts
    ofi_rows,      \* the rows of table ofi_history, in order
    wall_rows,     \* the rows of table wall_snapshots, in order
    dpc,           \* where DaemonCollector.on_update stands
    on_update_data, \* the record on_update was called with
    saves,         \* the number of _save_latest calls begun
    timeframe,     \* the timeframe of the last is_real or get_wall_map call
    queried,       \* the position in walls of the wall last asked is_real
    real,          \* what the last is_real call returned
    wall_map       \* what the last get_wall_map call returned

bookVars == <<managers, accepted_u, since_init, event, ret, line>>
wallVars == <<wall_trackers, wall_events, orderbook, now>>
collectorVars ==
    <<ofi_calculators, running, pc, pending, callbacks, received, raised, accepted,
      calls, msgs, desynced>>
ofiVars == <<ofi_returned, ofi_updates, changes>>
daemonVars ==
    <<latest_data, latest_file, tmp_file, _last_write_ts, _last_ofi_ts, _last_wall_ts,
      ofi_rows, wall_rows, dpc, on_update_data, saves>>
queryVars == <<timeframe, queried, real, wall_map>>

(***************************************************************************)
(* Bounds.                                                                 *)
(***************************************************************************)
\* update ids of snapshots and events range over 0..MaxId
MaxId == 3
\* the clock runs from 0 to MaxTime
MaxTime == 4
\* the collector handles at most MaxMsgs websocket messages
MaxMsgs == 3
\* a calculator driven on its own gets at most MaxUpdates update calls
\* between two resets
MaxUpdates == 23
\* and is shown a book other than the one before at most MaxChanges times
MaxChanges == 3
\* the daemon begins at most MaxSaves calls of _save_latest
MaxSaves == 3
\* a tracker asked for its wall map tracks MaxBidWalls bid walls
MaxBidWalls == 6

(***************************************************************************)
(* Shared values.                                                          *)
(***************************************************************************)
\* Python's None, for Optional[float] results
None == 0 - 1

\* Python truthiness of an Optional[float]: None and 0.0 are falsy
Truthy(x) == x # None /\ x # 0

\* OrderBookManager(symbol, depth=...): the depth the books are cut to
depth == 2

BTC == "BTCUSDT"
ETH == "ETHUSDT"

\* float(s) for the decimal strings the feed sends; a string outside the
\* domain raises ValueError
float == [s \in {"0", "0.0", "1", "2", "2.0", "3", "3.0", "4"} |->
            CASE s \in {"0", "0.0"} -> 0
              [] s = "1" -> 1
              [] s \in {"2", "2.0"} -> 2
              [] s \in {"3", "3.0"} -> 3
              [] OTHER -> 4]

Parses(s) == s \in DOMAIN float

Min(a, b) == IF a <= b THEN a ELSE b
Max(a, b) == IF a >= b THEN a ELSE b

(***************************************************************************)
(* orderbook.py: PriceLevel, OrderBook                                     *)
(***************************************************************************)
PriceLevel(p, q) == [price |-> p, quantity |-> q]

notional(level) == level.price * level.quantity

best_bid(ob) == IF Len(ob.bids) > 0 THEN ob.bids[1].price ELSE None

best_ask(ob) == IF Len(ob.asks) > 0 THEN ob.asks[1].price ELSE None

\* twice the mid price (the mid itself may be a half tick), None if absent
mid_price2(ob) ==
    IF Truthy(best_bid(ob)) /\ Truthy(best_ask(ob))
    THEN best_bid(ob) + best_ask(ob)
    ELSE None

(***************************************************************************)
(* orderbook.py: OrderBookManager                                          *)
(***************************************************************************)
\* __init__: an empty book, nothing initialized
NewManager ==
    [bids |-> <<>>, asks |-> <<>>, last_update_id |-> 0,
     _last_u |-> 0, _initialized |-> FALSE]

\* [PriceLevel(float(p), float(q)) for p, q in data[side]]
ParseLevels(raw) == [i \in 1..Len(raw) |-> PriceLevel(float[raw[i][1]], float[raw[i][2]])]

\* initialize that has stored the levels of the response and not yet its
\* lastUpdateId
initialize_levels_only(m, data) ==
    [bids |-> ParseLevels(data.bids),
     asks |-> ParseLevels(data.asks),
     last_update_id |-> m.last_update_id,
     _last_u |-> m._last_u,
     _initialized |-> TRUE]

\* initialize, after the REST response data arrived
initialize(m, data) ==
    [bids |-> ParseLevels(data.bids),
     asks |-> ParseLevels(data.asks),
     last_update_id |-> data.lastUpdateId,
     _last_u |-> data.lastUpdateId,
     _initialized |-> TRUE]

\* price_map = {level.price: level for level in book_side}: a later level of
\* the same price replaces an earlier one
PriceMapOf(book_side) ==
    [p \in {book_side[i].price : i \in 1..Len(book_side)} |->
        LET last == CHOOSE i \in 1..Len(book_side) :
                        /\ book_side[i].price = p
                        /\ \A j \in (i + 1)..Len(book_side) : book_side[j].price # p
        IN  book_side[last].quantity]

\* the loop of _apply_update over the parsed updates
RECURSIVE ApplyLevels(_, _)
ApplyLevels(price_map, updates) ==
    IF updates = <<>> THEN price_map
    ELSE LET price == float[updates[1][1]]
             qty == float[updates[1][2]]
             next == IF qty = 0
                     THEN [p \in DOMAIN price_map \ {price} |-> price_map[p]]
                     ELSE [p \in DOMAIN price_map \cup {price} |->
                              IF p = price THEN qty ELSE price_map[p]]
         IN  ApplyLevels(next, Tail(updates))

\* sorted(price_map.values(), key=price, reverse=reverse)
RECURSIVE SortedLevels(_, _)
SortedLevels(price_map, reverse) ==
    IF DOMAIN price_map = {} THEN <<>>
    ELSE LET first == IF reverse
                      THEN CHOOSE p \in DOMAIN price_map : \A r \in DOMAIN price_map : r <= p
                      ELSE CHOOSE p \in DOMAIN price_map : \A r \in DOMAIN price_map : r >= p
             rest == [p \in DOMAIN price_map \ {first} |-> price_map[p]]
         IN  <<PriceLevel(first, price_map[first])>> \o SortedLevels(rest, reverse)

\* whether every level of updates parses (else _apply_update raises in its
\* loop, before book_side is touched)
LevelsParse(updates) ==
    \A i \in 1..Len(updates) : Parses(updates[i][1]) /\ Parses(updates[i][2])

\* _apply_update that sorts every side ascending
_apply_update_ascending(updates, book_side, reverse) ==
    SortedLevels(ApplyLevels(PriceMapOf(book_side), updates), FALSE)

\* _apply_update: the new content of book_side
_apply_update(updates, book_side, reverse) ==
    SortedLevels(ApplyLevels(PriceMapOf(book_side), updates), reverse)

\* a book side that is never cut
Truncate_keep_all(book_side, d) == book_side

\* book_side[: depth]
Truncate(book_side, d) == SubSeq(book_side, 1, Min(d, Len(book_side)))

\* the ordering check with the snapshot's own id in place of the one after it
OrderingCheck_at_snapshot_id(m, U, u, pu) ==
    IF m._last_u = m.last_update_id
    THEN IF ~(U <= m._last_u /\ m._last_u <= u) THEN 91 ELSE 0
    ELSE IF pu # m._last_u THEN 94 ELSE 0

\* the ordering check of process_update, lines 89-94: the line of the failing
\* return, or 0 when the check passes
OrderingCheck(m, U, u, pu) ==
    IF m._last_u = m.last_update_id
    THEN IF ~(U <= m._last_u + 1 /\ m._last_u + 1 <= u) THEN 91 ELSE 0
    ELSE IF pu # m._last_u THEN 94 ELSE 0

\* the post-apply check rejecting only a bid above the ask
Crossed_strictly(ob) ==
    /\ Truthy(best_bid(ob)) /\ Truthy(best_ask(ob))
    /\ best_bid(ob) > best_ask(ob)

\* the post-apply check, lines 106-108
Crossed(ob) ==
    /\ Truthy(best_bid(ob)) /\ Truthy(best_ask(ob))
    /\ best_bid(ob) >= best_ask(ob)

\* process_update(event): the manager afterwards, how the call ended
\* ("True", "False", or the exception raised) and the line it ended at
process_update(m, ev) ==
    IF ~m._initialized THEN [mgr |-> m, ret |-> "False", line |-> 83]
    ELSE IF "u" \notin ev.has THEN [mgr |-> m, ret |-> "KeyError", line |-> 86]
    ELSE
    LET U == IF "U" \in ev.has THEN ev.U ELSE ev.u
        u == ev.u
        pu == IF "pu" \in ev.has THEN ev.pu ELSE m._last_u
        failed == OrderingCheck(m, U, u, pu)
    IN  IF failed # 0 THEN [mgr |-> m, ret |-> "False", line |-> failed]
        ELSE IF "b" \notin ev.has THEN [mgr |-> m, ret |-> "KeyError", line |-> 96]
        ELSE IF ~LevelsParse(ev.b) THEN [mgr |-> m, ret |-> "ValueError", line |-> 96]
        ELSE
        LET m1 == [m EXCEPT !.bids = _apply_update(ev.b, m.bids, TRUE)]
        IN  IF "a" \notin ev.has THEN [mgr |-> m1, ret |-> "KeyError", line |-> 97]
            ELSE IF ~LevelsParse(ev.a) THEN [mgr |-> m1, ret |-> "ValueError", line |-> 97]
            ELSE
            LET m2 == [m1 EXCEPT !.asks = _apply_update(ev.a, m.asks, FALSE)]
                m3 == [m2 EXCEPT !.bids = Truncate(m2.bids, depth),
                                 !.asks = Truncate(m2.asks, depth),
                                 !.last_update_id = u,
                                 !._last_u = u]
            IN  IF Crossed(m3)
                THEN [mgr |-> m3, ret |-> "False", line |-> 108]
                ELSE [mgr |-> m3, ret |-> "True", line |-> 110]

(***************************************************************************)
(* wall_tracker.py: Wall                                                   *)
(***************************************************************************)
BID == "bid"
ASK == "ask"

\* Wall(price, side, initial_qty=qty, current_qty=qty, first_seen=t,
\* last_seen=t); __post_init__ sets peak_qty = max(0, initial_qty)
NewWall(price, side, qty, t) ==
    [price |-> price, side |-> side, initial_qty |-> qty, current_qty |-> qty,
     first_seen |-> t, last_seen |-> t, replenish_count |-> 0, test_count |-> 0,
     peak_qty |-> Max(0, qty)]

\* age_seconds taken from the last sighting
age_seconds_since_last_seen(w, t) == t - w.last_seen

\* age_minutes * 60: the age in seconds
age_seconds(w, t) == t - w.first_seen

\* persistence_score, as the fraction num / den:
\*   age_minutes * 0.5                                  if test_count = 0
\*   age_minutes * (1 + replenish_count / max(1, test_count))  otherwise
persistence_score(w, t) ==
    IF w.test_count = 0
    THEN [num |-> age_seconds(w, t), den |-> 120]
    ELSE [num |-> age_seconds(w, t) * (Max(1, w.test_count) + w.replenish_count),
          den |-> 60 * Max(1, w.test_count)]

\* a >= b for fractions with positive denominators
FracGeq(a, b) == a.num * b.den >= b.num * a.den

\* WALL_PARAMS (lines 12-16), without the influence zone nothing reads
WALL_PARAMS ==
    ("4h" :> [min_age_minutes |-> 120, min_persistence |-> 150])
        @@ ("1h" :> [min_age_minutes |-> 30, min_persistence |-> 40])
        @@ ("15min" :> [min_age_minutes |-> 10, min_persistence |-> 15])

\* an unknown timeframe given the parameters of 15min
WallParams_unknown_as_15min(tf) ==
    IF tf \in DOMAIN WALL_PARAMS THEN WALL_PARAMS[tf] ELSE WALL_PARAMS["15min"]

\* WALL_PARAMS.get(timeframe, WALL_PARAMS["1h"])
WallParams(tf) ==
    IF tf \in DOMAIN WALL_PARAMS THEN WALL_PARAMS[tf] ELSE WALL_PARAMS["1h"]

\* Wall.is_real(timeframe), time.time() reading t
is_real(w, tf, t) ==
    LET params == WallParams(tf)
    IN  /\ age_seconds(w, t) >= 60 * params.min_age_minutes
        /\ FracGeq(persistence_score(w, t), [num |-> params.min_persistence, den |-> 1])

(***************************************************************************)
(* wall_tracker.py: WallTracker                                            *)
(* self.walls is a dict: here the sequence of its walls in insertion order *)
(***************************************************************************)
NewWallTracker(threshold_usd) == [threshold |-> threshold_usd, walls |-> <<>>]

\* the position of key (price, side) in walls, 0 if it is not tracked
WallIndex(walls, price, side) ==
    IF \E i \in 1..Len(walls) : walls[i].price = price /\ walls[i].side = side
    THEN CHOOSE i \in 1..Len(walls) : walls[i].price = price /\ walls[i].side = side
    ELSE 0

\* an event of the returned list: its type, the wall's key, and the reason
\* of a WALL_REMOVED
WallEvent(type, w, reason) ==
    [type |-> type, price |-> w.price, side |-> w.side, reason |-> reason]

\* a distance of exactly 0.003 counted as a test
NearPrice_inclusive(current_price2, price) ==
    LET diff2 == IF current_price2 >= 2 * price
                 THEN current_price2 - 2 * price
                 ELSE 2 * price - current_price2
    IN  diff2 * 1000 <= 6 * price

\* abs(current_price - price) / price < 0.003, current_price2 being twice
\* the mid price
NearPrice(current_price2, price) ==
    LET diff2 == IF current_price2 >= 2 * price
                 THEN current_price2 - 2 * price
                 ELSE 2 * price - current_price2
    IN  diff2 * 1000 < 6 * price

\* a quantity of exactly 1.2 times the old one counted as a replenish
Replenished_from_equal(qty, old_qty) == qty * 10 >= old_qty * 12

\* qty > old_qty * 1.2 (line 108)
Replenished(qty, old_qty) == qty * 10 > old_qty * 12

\* notional >= self.threshold
IsWallSized_above_only(level, threshold) == notional(level) > threshold

IsWallSized(level, threshold) == notional(level) >= threshold

\* a level under the threshold that refreshes the wall tracked at its key
SmallLevel_refreshes_wall(walls, level, side, t) ==
    LET i == WallIndex(walls, level.price, side)
    IN  IF i = 0 THEN walls
        ELSE [walls EXCEPT ![i] = [@ EXCEPT !.current_qty = level.quantity,
                                            !.last_seen = t]]

\* the walls after a level whose notional is under the threshold: the if of
\* line 103 has no else
SmallLevel(walls, level, side, t) == walls

\* the body of the loop of _process_side for one level: the walls afterwards
\* and the events appended
ProcessLevel(walls, threshold, level, side, current_price2, t) ==
    LET i == WallIndex(walls, level.price, side)
        qty == level.quantity
    IN  IF ~IsWallSized(level, threshold)
        THEN [walls |-> SmallLevel(walls, level, side, t), events |-> <<>>]
        ELSE IF i # 0
        THEN LET wall == walls[i]
                 replenished == Replenished(qty, wall.current_qty)
                 tested == Truthy(current_price2) /\ NearPrice(current_price2, level.price)
                 w1 == [wall EXCEPT
                          !.replenish_count = IF replenished THEN @ + 1 ELSE @,
                          !.test_count = IF tested THEN @ + 1 ELSE @,
                          !.current_qty = qty,
                          !.peak_qty = Max(@, qty),
                          !.last_seen = t]
             IN  [walls |-> [walls EXCEPT ![i] = w1],
                  events |-> IF replenished
                             THEN <<WallEvent("WALL_REPLENISH", wall, "")>>
                             ELSE <<>>]
        ELSE LET wall == NewWall(level.price, side, qty, t)
             IN  [walls |-> Append(walls, wall),
                  events |-> <<WallEvent("NEW_WALL", wall, "")>>]

\* _process_side(levels, side, current_price)
RECURSIVE _process_side(_, _, _, _, _, _)
_process_side(walls, threshold, levels, side, current_price2, t) ==
    IF levels = <<>> THEN [walls |-> walls, events |-> <<>>]
    ELSE LET head == ProcessLevel(walls, threshold, levels[1], side, current_price2, t)
             rest == _process_side(head.walls, threshold, Tail(levels), side,
                                   current_price2, t)
         IN  [walls |-> rest.walls, events |-> head.events \o rest.events]

\* all_prices of _cleanup_dead_walls
all_prices(ob) ==
    {<<ob.bids[i].price, BID>> : i \in 1..Len(ob.bids)}
        \cup {<<ob.asks[i].price, ASK>> : i \in 1..Len(ob.asks)}

\* the reason taken from the replenish count
RemovalReason_by_replenish(w) ==
    IF w.replenish_count > 0 THEN "consumed" ELSE "cancelled"

\* "consumed" if wall.test_count > 0 else "cancelled" (line 145)
RemovalReason(w) == IF w.test_count > 0 THEN "consumed" ELSE "cancelled"

\* _cleanup_dead_walls(orderbook)
_cleanup_dead_walls(walls, ob) ==
    LET Dead(w) == <<w.price, w.side>> \notin all_prices(ob)
        Alive(w) == ~Dead(w)
        dead == SelectSeq(walls, Dead)
    IN  [walls |-> SelectSeq(walls, Alive),
         events |-> [i \in 1..Len(dead) |->
                        WallEvent("WALL_REMOVED", dead[i], RemovalReason(dead[i]))]]

\* update that processes the asks before the bids
WallTracker_update_asks_first(tracker, ob, t) ==
    LET current_price2 == mid_price2(ob)
        a == _process_side(tracker.walls, tracker.threshold, ob.asks, ASK, current_price2, t)
        b == _process_side(a.walls, tracker.threshold, ob.bids, BID, current_price2, t)
        c == _cleanup_dead_walls(b.walls, ob)
    IN  [tracker |-> [tracker EXCEPT !.walls = c.walls],
         events |-> a.events \o b.events \o c.events]

\* WallTracker.update(orderbook) at time t: the tracker afterwards and the
\* events returned
WallTracker_update(tracker, ob, t) ==
    LET current_price2 == mid_price2(ob)
        b == _process_side(tracker.walls, tracker.threshold, ob.bids, BID, current_price2, t)
        a == _process_side(b.walls, tracker.threshold, ob.asks, ASK, current_price2, t)
        c == _cleanup_dead_walls(a.walls, ob)
    IN  [tracker |-> [tracker EXCEPT !.walls = c.walls],
         events |-> b.events \o a.events \o c.events]

\* get_real_walls taking every tracked wall for real
get_real_walls_unfiltered(tracker, tf, t) == tracker.walls

\* get_real_walls(timeframe): the real walls, in the order of the dict
get_real_walls(tracker, tf, t) ==
    LET Real(w) == is_real(w, tf, t)
    IN  SelectSeq(tracker.walls, Real)

\* sorted(walls, key=persistence_score, reverse=True): the sort is stable,
\* walls of equal score keep their order
RECURSIVE SortedByScore(_, _)
SortedByScore(walls, t) ==
    IF walls = <<>> THEN <<>>
    ELSE LET first == CHOOSE i \in 1..Len(walls) :
                        /\ \A j \in 1..Len(walls) :
                              FracGeq(persistence_score(walls[i], t),
                                      persistence_score(walls[j], t))
                        /\ \A j \in 1..(i - 1) :
                              ~FracGeq(persistence_score(walls[j], t),
                                       persistence_score(walls[i], t))
             rest == [j \in 1..(Len(walls) - 1) |->
                        IF j < first THEN walls[j] ELSE walls[j + 1]]
         IN  <<walls[first]>> \o SortedByScore(rest, t)

\* bid_walls[:5], ask_walls[:5]
WallMapLimit == 5

\* Wall.to_dict(), its exact fields (the rounded ones are left out)
to_dict(w) ==
    [price |-> w.price, side |-> w.side, current_qty |-> w.current_qty,
     replenish_count |-> w.replenish_count, test_count |-> w.test_count]

\* get_wall_map(timeframe), time.time() reading t
get_wall_map(tracker, tf, t) ==
    LET real_walls == get_real_walls(tracker, tf, t)
        IsBid(w) == w.side = BID
        IsAsk(w) == w.side = ASK
        bid_walls == SortedByScore(SelectSeq(real_walls, IsBid), t)
        ask_walls == SortedByScore(SelectSeq(real_walls, IsAsk), t)
        Dicts(ws) == [i \in 1..Len(ws) |-> to_dict(ws[i])]
    IN  [timeframe |-> tf,
         bid_walls |-> Dicts(Truncate(bid_walls, WallMapLimit)),
         ask_walls |-> Dicts(Truncate(ask_walls, WallMapLimit)),
         total_bid_walls |-> Len(bid_walls),
         total_ask_walls |-> Len(ask_walls)]

\* the wall map of a tracker without walls
EmptyWallMap ==
    [timeframe |-> "1h", bid_walls |-> <<>>, ask_walls |-> <<>>,
     total_bid_walls |-> 0, total_ask_walls |-> 0]

(***************************************************************************)
(* ofi_calculator.py: OFICalculator                                        *)
(* Reals are fractions [num, den] with den > 0.  The z-score ema / std is  *)
(* kept as the pair of its ema and of the variance std * std.              *)
(***************************************************************************)
Frac(n, d) == [num |-> n, den |-> d]

\* OFIState(): the defaults of the dataclass
ZeroOFIState ==
    [raw |-> 0, ema |-> Frac(0, 1), variance |-> Frac(1, 1), z_is_zero |-> TRUE,
     signal |-> "NEUTRAL"]

\* OFICalculator(depth, ema_span, history_size); alpha = 2 / (ema_span + 1)
NewOFICalculator(d, ema_span, history_size) ==
    [depth |-> d, alpha |-> Frac(2, ema_span + 1), maxlen |-> history_size,
     _prev_is_none |-> TRUE, _prev_bids |-> <<>>, _prev_asks |-> <<>>,
     _ema |-> Frac(0, 1), _history |-> <<>>, _initialized |-> FALSE]

RECURSIVE SumSeq(_)
SumSeq(seq) == IF seq = <<>> THEN 0 ELSE seq[1] + SumSeq(Tail(seq))

\* sum over the union of prices of curr.get(price, 0) - prev.get(price, 0),
\* the maps made by {p: q for p, q in levels}
SideDelta(prev, curr) ==
    LET pm == PriceMapOf(prev)
        cm == PriceMapOf(curr)
        prices == DOMAIN pm \cup DOMAIN cm
        Get(m, p) == IF p \in DOMAIN m THEN m[p] ELSE 0
        diffs == [p \in prices |-> Get(cm, p) - Get(pm, p)]
        RECURSIVE Total(_)
        Total(ps) == IF ps = {} THEN 0
                     ELSE LET p == CHOOSE x \in ps : TRUE
                          IN  diffs[p] + Total(ps \ {p})
    IN  Total(prices)

\* the two deltas added
_calculate_raw_ofi_adding_sides(calc, bids, asks) ==
    SideDelta(calc._prev_bids, bids) + SideDelta(calc._prev_asks, asks)

\* _calculate_raw_ofi(bids, asks)
_calculate_raw_ofi(calc, bids, asks) ==
    SideDelta(calc._prev_bids, bids) - SideDelta(calc._prev_asks, asks)

\* the population variance of the history, _std(values) squared, as a
\* fraction: sum((n*v - sum)^2) / n^3
Variance(values) ==
    LET n == Len(values)
        total == SumSeq(values)
    IN  IF n = 0 THEN Frac(0, 1)
        ELSE Frac(SumSeq([i \in 1..n |-> (n * values[i] - total) * (n * values[i] - total)]),
                  n * n * n)

\* ema / std > c for c >= 0, and ema / std < -c, with std > 0
ZAbove(ema, variance, c) ==
    ema.num > 0 /\ ema.num * ema.num * variance.den > c * c * variance.num * ema.den * ema.den

ZBelowMinus(ema, variance, c) ==
    ema.num < 0 /\ ema.num * ema.num * variance.den > c * c * variance.num * ema.den * ema.den

\* _get_signal(z_score)
_get_signal_buy_before_strong(z_is_zero, ema, variance) ==
    IF z_is_zero THEN "NEUTRAL"
    ELSE IF ZAbove(ema, variance, 1) THEN "BUY"
    ELSE IF ZAbove(ema, variance, 2) THEN "STRONG_BUY"
    ELSE IF ZBelowMinus(ema, variance, 2) THEN "STRONG_SELL"
    ELSE IF ZBelowMinus(ema, variance, 1) THEN "SELL"
    ELSE "NEUTRAL"

_get_signal(z_is_zero, ema, variance) ==
    IF z_is_zero THEN "NEUTRAL"
    ELSE IF ZAbove(ema, variance, 2) THEN "STRONG_BUY"
    ELSE IF ZAbove(ema, variance, 1) THEN "BUY"
    ELSE IF ZBelowMinus(ema, variance, 2) THEN "STRONG_SELL"
    ELSE IF ZBelowMinus(ema, variance, 1) THEN "SELL"
    ELSE "NEUTRAL"

\* a history of ten entries taken for enough
EnoughHistory_from_ten(history) == Len(history) >= 10

\* len(self._history) >= 20 (line 62)
EnoughHistory(history) == Len(history) >= 20

RECURSIVE GCD(_, _)
GCD(x, y) == IF y = 0 THEN x ELSE GCD(y, x % y)

\* the same number in lowest terms
Reduce(f) ==
    LET g == GCD(IF f.num < 0 THEN 0 - f.num ELSE f.num, f.den)
    IN  Frac(f.num \div g, f.den \div g)

\* a reset that leaves the history
OFICalculator_reset_keeps_history(calc) ==
    [calc EXCEPT !._prev_is_none = TRUE, !._prev_bids = <<>>, !._prev_asks = <<>>,
                 !._ema = Frac(0, 1), !._initialized = FALSE]

\* OFICalculator.reset()
OFICalculator_reset(calc) ==
    [calc EXCEPT !._prev_is_none = TRUE, !._prev_bids = <<>>, !._prev_asks = <<>>,
                 !._ema = Frac(0, 1), !._history = <<>>, !._initialized = FALSE]

\* OFICalculator.update(orderbook): the calculator afterwards and the
\* OFIState returned
OFICalculator_update(calc, ob) ==
    LET bids == Truncate(ob.bids, calc.depth)
        asks == Truncate(ob.asks, calc.depth)
    IN  IF calc._prev_is_none
        THEN [calc |-> [calc EXCEPT !._prev_is_none = FALSE,
                                    !._prev_bids = bids, !._prev_asks = asks],
              state |-> ZeroOFIState]
        ELSE
        LET raw_ofi == _calculate_raw_ofi(calc, bids, asks)
            a == calc.alpha
            ema == IF ~calc._initialized THEN Frac(raw_ofi, 1)
                   ELSE Reduce(Frac(a.num * raw_ofi * calc._ema.den
                                        + (a.den - a.num) * calc._ema.num,
                                    a.den * calc._ema.den))
            appended == Append(calc._history, raw_ofi)
            history == IF Len(appended) > calc.maxlen THEN Tail(appended) ELSE appended
            enough == EnoughHistory(history)
            variance == IF enough THEN Variance(history) ELSE Frac(1, 1)
            z_is_zero == ~enough \/ variance.num = 0 \/ ema.num = 0
        IN  [calc |-> [calc EXCEPT !._ema = ema, !._initialized = TRUE,
                                   !._history = history,
                                   !._prev_bids = bids, !._prev_asks = asks],
             state |-> [raw |-> raw_ofi, ema |-> ema, variance |-> variance,
                        z_is_zero |-> z_is_zero,
                        signal |-> _get_signal(z_is_zero, ema, variance)]]

(***************************************************************************)
(* Inputs: the REST snapshots and the depth events of the feed.            *)
(***************************************************************************)
\* a depth event; None stands for a field the event does not carry
Event(U, u, pu, b, a) ==
    [has |-> {"u", "b", "a"} \cup (IF U # None THEN {"U"} ELSE {})
                             \cup (IF pu # None THEN {"pu"} ELSE {}),
     U |-> U, u |-> u, pu |-> pu, b |-> b, a |-> a]

\* events over all id fields (U <= u when both are sent), with few level lists
EventsById ==
    { Event(i[1], i[2], pu, l[1], l[2]) :
        i \in {x \in ({None} \cup 1..MaxId) \X (1..MaxId) : x[1] <= x[2]},
        pu \in {None} \cup 1..MaxId,
        l \in { << <<>>, <<>> >>,
                << << <<"3", "2">> >>, <<>> >> } }

\* lists of [price_string, quantity_string] an event carries for one side
LevelUpdates ==
    { << <<"3", "2">> >>,
      << <<"2.0", "0">> >>,
      << <<"1", "2">>, <<"4", "1">> >>,
      << <<"3", "0">>, <<"3.0", "1">> >>,
      << <<"1", "x">> >> }

\* events over the level lists, with the ids of an event that covers the
\* book's next id
EventsByLevels ==
    { Event(1, u, None, l[1], l[2]) :
        u \in 1..MaxId,
        l \in ({<<>>} \X LevelUpdates) \cup (LevelUpdates \X {<<>>})
              \cup { << << <<"3", "2">> >>, << <<"2.0", "0">> >> >>,
                     << << <<"1", "2">>, <<"4", "1">> >>, << <<"1", "x">> >> >> } }

\* events that lack a required field
EventsMalformed ==
    { [Event(1, MaxId, None, <<>>, <<>>) EXCEPT !.has = {"U", "u", "b", "a"} \ {f}] :
        f \in {"u", "b", "a"} }

\* the bodies GET /fapi/v1/depth answers with
Snapshots ==
    { [lastUpdateId |-> L, bids |-> book[1], asks |-> book[2]] :
        L \in 0..MaxId,
        book \in { << << <<"2", "1">>, <<"1", "1">> >>, << <<"4", "2">> >> >>,
                   << << <<"2.0", "2">> >>, << <<"3", "1">>, <<"4", "1">> >> >> } }

(***************************************************************************)
(* The OrderBookManager driven through its methods.                        *)
(***************************************************************************)
NoEvent == Event(None, 0, None, <<>>, <<>>)

\* the copy of the book get_snapshot() hands to the trackers
OrderBook(bids, asks) == [bids |-> bids, asks |-> asks]

\* WallTracker(symbol, threshold_usd=...) of the tracker driven on its own
threshold_usd == 5000

\* DataCollector.__init__ for the symbols S: a manager per symbol
InitManagers(S) ==
    /\ symbols = S
    /\ managers = [s \in S |-> NewManager]
    /\ accepted_u = [s \in S |-> 0]
    /\ since_init = [s \in S |-> 0]
    /\ event = NoEvent
    /\ ret = "None"
    /\ line = 0

\* DataCollector.__init__: a wall tracker per symbol
InitWallTrackers(S, threshold) ==
    /\ wall_trackers = [s \in S |-> NewWallTracker(threshold)]
    /\ wall_events = <<>>
    /\ orderbook = OrderBook(<<>>, <<>>)
    /\ now = 0

\* DataCollector.__init__: an OFI calculator per symbol, nothing running, and
\* the subscribers registered through on_update before start()
InitCollector(S, subscribers) ==
    /\ ofi_calculators = [s \in S |-> NewOFICalculator(10, 20, 100)]
    /\ running = FALSE
    /\ pc = "new"
    /\ pending = {}
    /\ callbacks = subscribers
    /\ received = [i \in 1..Len(subscribers) |-> <<>>]
    /\ raised = {}
    /\ accepted = <<>>
    /\ calls = <<>>
    /\ msgs = 0
    /\ desynced = {}

\* a file that does not exist
Absent == [exists |-> FALSE, id |-> 0, data |-> <<>>, complete |-> FALSE]

\* no OFICalculator.update call made yet
InitOfi(S) ==
    /\ ofi_returned = ZeroOFIState
    /\ ofi_updates = [s \in S |-> 0]
    /\ changes = 0

\* DaemonCollector.__init__: the timestamps at 0.0, latest_data empty; no
\* file written yet, no table row
InitDaemon ==
    /\ latest_data = <<>>
    /\ latest_file = Absent
    /\ tmp_file = Absent
    /\ _last_write_ts = 0
    /\ _last_ofi_ts = 0
    /\ _last_wall_ts = 0
    /\ ofi_rows = <<>>
    /\ wall_rows = <<>>
    /\ dpc = "idle"
    /\ on_update_data = <<>>
    /\ saves = 0

\* no is_real or get_wall_map call made yet
InitQuery ==
    /\ timeframe = "1h"
    /\ queried = 0
    /\ real = FALSE
    /\ wall_map = EmptyWallMap

Init ==
    /\ InitManagers({BTC})
    /\ InitWallTrackers({BTC}, threshold_usd)
    /\ InitCollector({BTC}, <<>>)
    /\ InitOfi({BTC})
    /\ InitDaemon
    /\ InitQuery
    /\ op = "__init__"
    /\ sym = BTC

\* await manager.initialize(session), the REST request answered with data
Initialize(s, data) ==
    /\ managers' = [managers EXCEPT ![s] = initialize(managers[s], data)]
    /\ accepted_u' = [accepted_u EXCEPT ![s] = 0]
    /\ since_init' = [since_init EXCEPT ![s] = 0]
    /\ op' = "initialize"
    /\ sym' = s
    /\ ret' = "None"
    /\ line' = 79
    /\ UNCHANGED <<symbols, event>>
    /\ UNCHANGED wallVars
    /\ UNCHANGED collectorVars
    /\ UNCHANGED ofiVars
    /\ UNCHANGED daemonVars
    /\ UNCHANGED queryVars

\* await manager.initialize(session), the REST request failing (lines 71-72)
InitializeFail(s) ==
    /\ op' = "initialize"
    /\ sym' = s
    /\ ret' = "Exception"
    /\ line' = 72
    /\ UNCHANGED <<symbols, managers, accepted_u, since_init, event>>
    /\ UNCHANGED wallVars
    /\ UNCHANGED collectorVars
    /\ UNCHANGED ofiVars
    /\ UNCHANGED daemonVars
    /\ UNCHANGED queryVars

\* manager.process_update(ev)
ProcessUpdate(s, ev) ==
    LET r == process_update(managers[s], ev)
    IN  /\ managers' = [managers EXCEPT ![s] = r.mgr]
        /\ accepted_u' = [accepted_u EXCEPT ![s] = IF r.ret = "True" THEN ev.u ELSE @]
        /\ since_init' = [since_init EXCEPT ![s] = Min(@ + 1, 2)]
        /\ op' = "process_update"
        /\ sym' = s
        /\ event' = ev
        /\ ret' = r.ret
        /\ line' = r.line
        /\ UNCHANGED symbols
        /\ UNCHANGED wallVars
        /\ UNCHANGED collectorVars
    /\ UNCHANGED collectorVars
    /\ UNCHANGED ofiVars
    /\ UNCHANGED daemonVars
    /\ UNCHANGED queryVars

vars ==
    <<symbols, managers, accepted_u, since_init, op, sym, event, ret, line,
      wall_trackers, wall_events, orderbook, now,
      ofi_calculators, running, pc, pending, callbacks, received, raised, accepted,
      calls, msgs, desynced, ofi_returned, ofi_updates, changes,
      latest_data, latest_file, tmp_file, _last_write_ts, _last_ofi_ts, _last_wall_ts,
      ofi_rows, wall_rows, dpc, on_update_data, saves,
      timeframe, queried, real, wall_map>>

Next ==
    \/ \E s \in symbols, data \in Snapshots : Initialize(s, data)
    \/ \E s \in symbols : InitializeFail(s)
    \/ \E s \in symbols, ev \in EventsById \cup EventsMalformed : ProcessUpdate(s, ev)

Spec == Init /\ [][Next]_vars

\* the same manager, fed events that vary in their price levels
NextLevels ==
    \/ \E s \in symbols, data \in {d \in Snapshots : d.lastUpdateId = 0} : Initialize(s, data)
    \/ \E s \in symbols : InitializeFail(s)
    \/ \E s \in symbols, ev \in EventsByLevels \cup EventsMalformed : ProcessUpdate(s, ev)

SpecLevels == Init /\ [][NextLevels]_vars

(***************************************************************************)
(* The WallTracker driven through update, one call per clock reading.      *)
(***************************************************************************)
\* the books the tracker is shown: sorted, uncrossed, as get_snapshot()
\* returns them after an accepted update
WallBooks ==
    { OrderBook(b, a) :
        b \in { <<>>,
                <<PriceLevel(1000, 5)>>,
                <<PriceLevel(1000, 6)>>,
                <<PriceLevel(1000, 7)>>,
                <<PriceLevel(1000, 4), PriceLevel(990, 6)>>,
                <<PriceLevel(1000, 5), PriceLevel(990, 6)>> },
        a \in { <<>>,
                <<PriceLevel(1002, 5)>>,
                <<PriceLevel(1006, 5)>>,
                <<PriceLevel(1040, 6), PriceLevel(1050, 4)>> } }

\* self.wall_trackers[symbol].update(orderbook), a second after the last
\* clock reading
WallUpdate(s, ob) ==
    /\ now < MaxTime
    /\ now' = now + 1
    /\ LET r == WallTracker_update(wall_trackers[s], ob, now + 1)
       IN  /\ wall_trackers' = [wall_trackers EXCEPT ![s] = r.tracker]
           /\ wall_events' = r.events
    /\ orderbook' = ob
    /\ op' = "WallTracker.update"
    /\ sym' = s
    /\ UNCHANGED symbols
    /\ UNCHANGED bookVars
    /\ UNCHANGED collectorVars
    /\ UNCHANGED ofiVars
    /\ UNCHANGED daemonVars
    /\ UNCHANGED queryVars

\* a second passes
Tick ==
    /\ now < MaxTime
    /\ now' = now + 1
    /\ op' = "tick"
    /\ UNCHANGED <<symbols, sym, wall_trackers, wall_events, orderbook>>
    /\ UNCHANGED bookVars
    /\ UNCHANGED collectorVars
    /\ UNCHANGED ofiVars
    /\ UNCHANGED daemonVars
    /\ UNCHANGED queryVars

NextWall ==
    \/ \E s \in symbols, ob \in WallBooks : WallUpdate(s, ob)
    \/ Tick

SpecWall == Init /\ [][NextWall]_vars

(***************************************************************************)
(* A WallTracker asked is_real and get_wall_map.                           *)
(***************************************************************************)
\* time.time() when the tracker is asked, in seconds
QueryTime == 300 * 60

\* what a tracked wall has been through: its age in seconds and its counts
WallProfiles ==
    << [age |-> 120 * 60, test_count |-> 4, replenish_count |-> 1],
       [age |-> 300 * 60, test_count |-> 0, replenish_count |-> 0],
       [age |-> 30 * 60, test_count |-> 3, replenish_count |-> 1],
       [age |-> 30 * 60 - 1, test_count |-> 1, replenish_count |-> 5],
       [age |-> 10 * 60, test_count |-> 0, replenish_count |-> 0],
       [age |-> 120 * 60 - 1, test_count |-> 1, replenish_count |-> 2],
       [age |-> 10 * 60, test_count |-> 2, replenish_count |-> 1] >>

\* the wall at position i has the profile at i or, if pick is 1, the next
ProfileAt(i, pick) == WallProfiles[((i - 1 + pick) % Len(WallProfiles)) + 1]

\* a wall of the profile, three lots at its price, last seen now
ProfiledWall(price, side, profile) ==
    [NewWall(price, side, 3, QueryTime - profile.age) EXCEPT
        !.last_seen = QueryTime,
        !.test_count = profile.test_count,
        !.replenish_count = profile.replenish_count]

\* the timeframes asked for: the three of WALL_PARAMS and one outside
QueryTimeframes == {"4h", "1h", "15min", "1d"}

\* a tracker that has seen its walls for a while: MaxBidWalls bid walls
\* below 1000 and one ask wall
WallMapInit ==
    /\ InitManagers({BTC})
    /\ \E picks \in [1..(MaxBidWalls + 1) -> {0, 1}] :
          wall_trackers =
                [s \in {BTC} |->
                    [threshold |-> threshold_usd,
                     walls |-> [i \in 1..(MaxBidWalls + 1) |->
                                  IF i <= MaxBidWalls
                                  THEN ProfiledWall(1000 - i, BID, ProfileAt(i, picks[i]))
                                  ELSE ProfiledWall(1002, ASK, ProfileAt(i, picks[i]))]]]
    /\ wall_events = <<>>
    /\ orderbook = OrderBook(<<>>, <<>>)
    /\ now = QueryTime
    /\ InitCollector({BTC}, <<>>)
    /\ InitOfi({BTC})
    /\ InitDaemon
    /\ InitQuery
    /\ op = "__init__"
    /\ sym = BTC

\* self.walls[i].is_real(tf)
IsReal(s, i, tf) ==
    /\ i \in 1..Len(wall_trackers[s].walls)
    /\ real' = is_real(wall_trackers[s].walls[i], tf, now)
    /\ queried' = i
    /\ timeframe' = tf
    /\ op' = "is_real"
    /\ sym' = s
    /\ UNCHANGED <<symbols, wall_map>>
    /\ UNCHANGED bookVars
    /\ UNCHANGED wallVars
    /\ UNCHANGED collectorVars
    /\ UNCHANGED ofiVars
    /\ UNCHANGED daemonVars

\* self.wall_trackers[s].get_wall_map(tf)
GetWallMap(s, tf) ==
    /\ wall_map' = get_wall_map(wall_trackers[s], tf, now)
    /\ timeframe' = tf
    /\ op' = "get_wall_map"
    /\ sym' = s
    /\ UNCHANGED <<symbols, queried, real>>
    /\ UNCHANGED bookVars
    /\ UNCHANGED wallVars
    /\ UNCHANGED collectorVars
    /\ UNCHANGED ofiVars
    /\ UNCHANGED daemonVars

NextWallMap ==
    \/ \E s \in symbols, i \in 1..(MaxBidWalls + 1), tf \in QueryTimeframes : IsReal(s, i, tf)
    \/ \E s \in symbols, tf \in QueryTimeframes : GetWallMap(s, tf)

SpecWallMap == WallMapInit /\ [][NextWallMap]_vars

(***************************************************************************)
(* The OFICalculator driven through update and reset.                      *)
(***************************************************************************)
\* the books the calculator is shown; with depth 1 it reads the best level
\* of each side
OfiBooks ==
    { OrderBook(<<PriceLevel(2, 2), PriceLevel(1, 5)>>, <<PriceLevel(3, 1)>>),
      OrderBook(<<PriceLevel(2, 5), PriceLevel(1, 5)>>, <<PriceLevel(3, 1)>>),
      OrderBook(<<PriceLevel(2, 2)>>, <<PriceLevel(4, 2), PriceLevel(5, 1)>>) }

\* OFICalculator(depth=1, ema_span=1, history_size=21): alpha is 1 and the
\* deque drops its oldest entry from the 22nd on
OfiInit ==
    /\ InitManagers({BTC})
    /\ InitWallTrackers({BTC}, threshold_usd)
    /\ ofi_calculators = [s \in {BTC} |-> NewOFICalculator(1, 1, 21)]
    /\ running = FALSE
    /\ pc = "new"
    /\ pending = {}
    /\ callbacks = <<>>
    /\ received = <<>>
    /\ raised = {}
    /\ accepted = <<>>
    /\ calls = <<>>
    /\ msgs = 0
    /\ desynced = {}
    /\ InitOfi({BTC})
    /\ InitDaemon
    /\ InitQuery
    /\ op = "__init__"
    /\ sym = BTC

\* self.ofi_calculators[s].update(ob)
OfiUpdate(s, ob) ==
    /\ ofi_updates[s] < MaxUpdates
    /\ ob # orderbook => changes < MaxChanges
    /\ LET o == OFICalculator_update(ofi_calculators[s], ob)
       IN  /\ ofi_calculators' = [ofi_calculators EXCEPT ![s] = o.calc]
           /\ ofi_returned' = o.state
    /\ ofi_updates' = [ofi_updates EXCEPT ![s] = @ + 1]
    /\ changes' = IF ob # orderbook THEN changes + 1 ELSE changes
    /\ orderbook' = ob
    /\ op' = "OFICalculator.update"
    /\ sym' = s
    /\ UNCHANGED <<symbols, wall_trackers, wall_events, now>>
    /\ UNCHANGED <<running, pc, pending, callbacks, received, raised, accepted, calls, msgs,
                   desynced>>
    /\ UNCHANGED bookVars
    /\ UNCHANGED daemonVars
    /\ UNCHANGED queryVars

\* self.ofi_calculators[s].reset()
OfiReset(s) ==
    /\ ofi_updates[s] > 0
    /\ ofi_calculators' = [ofi_calculators EXCEPT ![s] = OFICalculator_reset(@)]
    /\ ofi_updates' = [ofi_updates EXCEPT ![s] = 0]
    /\ op' = "OFICalculator.reset"
    /\ sym' = s
    /\ UNCHANGED <<symbols, ofi_returned, changes>>
    /\ UNCHANGED wallVars
    /\ UNCHANGED <<running, pc, pending, callbacks, received, raised, accepted, calls, msgs,
                   desynced>>
    /\ UNCHANGED bookVars
    /\ UNCHANGED daemonVars
    /\ UNCHANGED queryVars

NextOfi ==
    \/ \E s \in symbols, ob \in OfiBooks : OfiUpdate(s, ob)
    \/ \E s \in symbols : OfiReset(s)

SpecOfi == OfiInit /\ [][NextOfi]_vars

(***************************************************************************)
(* collector.py: DataCollector                                             *)
(***************************************************************************)
\* self.thresholds.get(symbol, ...) of the collector's trackers
collector_threshold == 6

\* stream.split("@")[0].upper()
symbol_of ==
    [st \in {"btcusdt@depth20@500ms", "ethusdt@depth20@500ms", "xrpusdt@depth20@500ms"} |->
        CASE st = "btcusdt@depth20@500ms" -> BTC
          [] st = "ethusdt@depth20@500ms" -> ETH
          [] OTHER -> "XRPUSDT"]

\* a TEXT message of the websocket: a JSON object {"stream", "data"}, or
\* text json.loads() rejects
Message(stream, data) == [json |-> TRUE, stream |-> stream, data |-> data]
Garbage == [json |-> FALSE, stream |-> "btcusdt@depth20@500ms", data |-> NoEvent]

\* the events the collector is fed: one that covers ids 1..2 and bids at 3,
\* one of id 1 that changes nothing, one whose ask list does not parse, one
\* of id 3 that follows id 2 and deletes the bids at 3, one without asks,
\* and the empty event of a message without data (msg.get("data", {}))
CollectorEvents ==
    { Event(1, 2, None, << <<"3", "2">> >>, <<>>),
      Event(1, 1, None, <<>>, <<>>),
      Event(1, 2, None, << <<"1", "2">> >>, << <<"1", "x">> >>),
      Event(3, 3, 2, << <<"3", "0">> >>, <<>>),
      [Event(1, 2, None, << <<"1", "2">> >>, <<>>) EXCEPT !.has = {"U", "u", "b"}],
      [Event(None, 0, None, <<>>, <<>>) EXCEPT !.has = {}] }

\* the messages of the websocket: every event for one symbol, one event for
\* the other and for a symbol not configured, and undecodable text
CollectorMessages ==
    { Message("btcusdt@depth20@500ms", ev) : ev \in CollectorEvents }
        \cup { Message("ethusdt@depth20@500ms", Event(1, 1, None, <<>>, <<>>)),
               Message("xrpusdt@depth20@500ms", Event(1, 1, None, <<>>, <<>>)), Garbage }

\* the snapshots the REST endpoint answers the collector with
CollectorSnapshots ==
    { [lastUpdateId |-> 0, bids |-> << <<"2.0", "2">> >>,
       asks |-> << <<"3", "1">>, <<"4", "1">> >>],
      [lastUpdateId |-> 1, bids |-> << <<"2", "1">>, <<"1", "1">> >>,
       asks |-> << <<"4", "2">> >>] }

\* the snapshots answered for the symbol s: either for one symbol, the one
\* of id 0 for the other
SnapshotsOf(s) ==
    IF s = BTC THEN CollectorSnapshots
    ELSE {snapshot \in CollectorSnapshots : snapshot.lastUpdateId = 0}

\* what _handle_message does with the result of process_update (lines
\* 78-85 and 116-117): go on to emit, re-initialize, or, on an exception,
\* give the message up ("raise" stands for an exception that leaves the
\* handler)
AfterProcessUpdate_ignoring_failure(result) ==
    CASE result \in {"True", "False"} -> "emit"
      [] OTHER -> "drop"

\* the handler without its outer except
AfterProcessUpdate_exception_escapes(result) ==
    CASE result = "True" -> "emit"
      [] result = "False" -> "resync"
      [] OTHER -> "raise"

AfterProcessUpdate(result) ==
    CASE result = "True" -> "emit"
      [] result = "False" -> "resync"
      [] OTHER -> "drop"

\* the loop over self._callbacks (lines 108-115): the positions of the
\* callbacks that get called, those of raisers being the callbacks that raise
Dispatch_until_first_error(cbs, raisers) ==
    {i \in 1..Len(cbs) : \A j \in 1..(i - 1) : j \notin raisers}

Dispatch(cbs, raisers) == 1..Len(cbs)

\* update_data, with the last_update_id of the snapshot it was made from
UpdateRecord(symbol, m, ofi_state, events) ==
    [symbol |-> symbol, book_id |-> m.last_update_id,
     best_bid |-> best_bid(m), best_ask |-> best_ask(m),
     mid_price2 |-> mid_price2(m),
     ofi |-> ofi_state, wall_events |-> events]

CollectorInit ==
    /\ InitManagers({BTC, ETH})
    /\ InitWallTrackers({BTC, ETH}, collector_threshold)
    /\ InitCollector({BTC, ETH}, <<"latest", "history">>)
    /\ InitOfi({BTC, ETH})
    /\ InitDaemon
    /\ InitQuery
    /\ op = "__init__"
    /\ sym = BTC

\* start(): self._running = True, then the initialize() of every symbol is
\* gathered
Start ==
    /\ pc = "new"
    /\ running' = TRUE
    /\ pc' = "gather"
    /\ pending' = symbols
    /\ op' = "start"
    /\ UNCHANGED <<symbols, sym, ofi_calculators, callbacks, received, raised, accepted,
                   calls, msgs, desynced>>
    /\ UNCHANGED bookVars
    /\ UNCHANGED wallVars
    /\ UNCHANGED ofiVars
    /\ UNCHANGED daemonVars
    /\ UNCHANGED queryVars

\* stop(): self._running = False, called from the signal handler while
\* start() waits at one of its awaits
Stop ==
    /\ pc \in {"gather", "connect", "read", "sleep", "resync"}
    /\ running
    /\ running' = FALSE
    /\ op' = "stop"
    /\ UNCHANGED <<symbols, sym, ofi_calculators, pc, pending, callbacks, received, raised,
                   accepted, calls, msgs, desynced>>
    /\ UNCHANGED bookVars
    /\ UNCHANGED wallVars
    /\ UNCHANGED ofiVars
    /\ UNCHANGED daemonVars
    /\ UNCHANGED queryVars

\* a response that also replaces the symbol's WallTracker by a new one
SnapshotArrives_new_tracker(s, snapshot) ==
    /\ pc \in {"gather", "resync"}
    /\ s \in pending
    /\ managers' = [managers EXCEPT ![s] = initialize(managers[s], snapshot)]
    /\ accepted_u' = [accepted_u EXCEPT ![s] = 0]
    /\ since_init' = [since_init EXCEPT ![s] = 0]
    /\ desynced' = desynced \ {s}
    /\ pending' = pending \ {s}
    /\ pc' = IF pc = "resync" THEN "read"
             ELSE IF pending = {s} THEN "connect" ELSE "gather"
    /\ op' = "initialize"
    /\ sym' = s
    /\ UNCHANGED <<symbols, event, ret, line, ofi_calculators, running, callbacks, received,
                   raised, accepted, calls, msgs>>
    /\ wall_trackers' = [wall_trackers EXCEPT ![s] = NewWallTracker(@.threshold)]
    /\ UNCHANGED <<wall_events, orderbook, now>>
    /\ UNCHANGED ofiVars
    /\ UNCHANGED daemonVars
    /\ UNCHANGED queryVars

\* the REST response data arrives for a pending initialize() of symbol s
SnapshotArrives(s, snapshot) ==
    /\ pc \in {"gather", "resync"}
    /\ s \in pending
    /\ managers' = [managers EXCEPT ![s] = initialize(managers[s], snapshot)]
    /\ accepted_u' = [accepted_u EXCEPT ![s] = 0]
    /\ since_init' = [since_init EXCEPT ![s] = 0]
    /\ desynced' = desynced \ {s}
    /\ pending' = pending \ {s}
    /\ pc' = IF pc = "resync" THEN "read"
             ELSE IF pending = {s} THEN "connect" ELSE "gather"
    /\ op' = "initialize"
    /\ sym' = s
    /\ UNCHANGED <<symbols, event, ret, line, ofi_calculators, running, callbacks, received,
                   raised, accepted, calls, msgs>>
    /\ UNCHANGED wallVars
    /\ UNCHANGED ofiVars
    /\ UNCHANGED daemonVars
    /\ UNCHANGED queryVars

\* the REST request of a pending initialize() of symbol s fails: at startup
\* gather() passes the exception on and start() ends with it; in a resync
\* _handle_message swallows it (line 116)
SnapshotFails(s) ==
    /\ pc \in {"gather", "resync"}
    /\ s \in pending
    /\ pending' = IF pc = "resync" THEN {} ELSE pending \ {s}
    /\ pc' = IF pc = "resync" THEN "read" ELSE "failed"
    /\ op' = "initialize_failed"
    /\ sym' = s
    /\ UNCHANGED <<symbols, ofi_calculators, running, callbacks, received, raised, accepted,
                   calls, msgs, desynced>>
    /\ UNCHANGED bookVars
    /\ UNCHANGED wallVars
    /\ UNCHANGED ofiVars
    /\ UNCHANGED daemonVars
    /\ UNCHANGED queryVars

\* a step of the while loop of start() that touches nothing but its position
LoopStep(from, to, name) ==
    /\ pc = from
    /\ pc' = to
    /\ op' = name
    /\ UNCHANGED <<symbols, sym, ofi_calculators, running, callbacks, received, raised,
                   accepted, calls, msgs, pending, desynced>>
    /\ UNCHANGED bookVars
    /\ UNCHANGED ofiVars
    /\ UNCHANGED daemonVars
    /\ UNCHANGED queryVars

\* while self._running: session.ws_connect(ws_url) succeeds
WsConnect ==
    /\ running
    /\ LoopStep("connect", "read", "ws_connect")
    /\ UNCHANGED wallVars

\* while self._running: session.ws_connect(ws_url) raises, which the except
\* of line 64 catches
WsConnectRaises ==
    /\ running
    /\ LoopStep("connect", "sleep", "ws_connect_raised")
    /\ UNCHANGED wallVars

\* while self._running is false: the loop ends and start() returns
StartReturns ==
    /\ ~running
    /\ LoopStep("connect", "done", "start_returns")
    /\ UNCHANGED wallVars

\* reading the websocket raises: except Exception of line 64
WsRaises ==
    /\ LoopStep("read", "sleep", "ws_raised")
    /\ UNCHANGED wallVars

\* a message of type ERROR: break (line 63), out of the async with and back
\* to the while
WsErrorMessage ==
    /\ LoopStep("read", "connect", "ws_error_message")
    /\ UNCHANGED wallVars

\* the remote side closes: the async for ends, and so does the async with
WsRemoteClose ==
    /\ LoopStep("read", "connect", "ws_remote_close")
    /\ UNCHANGED wallVars

\* await asyncio.sleep(5) of line 65 is over
SleepDone ==
    /\ now <= MaxTime
    /\ LoopStep("sleep", "connect", "sleep")
    /\ now' = now + 5
    /\ UNCHANGED <<wall_trackers, wall_events, orderbook>>

\* _handle_message(msg.data, session) for a message that is dropped before
\* process_update: undecodable text, or the stream of a symbol not configured
HandleDropped(msg) ==
    /\ pc = "read"
    /\ msgs < MaxMsgs
    /\ ~msg.json \/ symbol_of[msg.stream] \notin DOMAIN managers
    /\ msgs' = msgs + 1
    /\ op' = "_handle_message"
    /\ calls' = <<>>
    /\ raised' = {}
    /\ UNCHANGED <<symbols, sym, ofi_calculators, running, pc, pending, callbacks, received,
                   accepted, desynced>>
    /\ UNCHANGED bookVars
    /\ UNCHANGED wallVars
    /\ UNCHANGED ofiVars
    /\ UNCHANGED daemonVars
    /\ UNCHANGED queryVars

\* _handle_message(msg.data, session) for a message of a configured symbol,
\* up to its return or to the await of manager.initialize(); raisers are the
\* callbacks that raise when called with this record
HandleMessage(msg, raisers) ==
    /\ pc = "read"
    /\ msgs < MaxMsgs
    /\ msg.json /\ symbol_of[msg.stream] \in DOMAIN managers
    /\ LET symbol == symbol_of[msg.stream]
           r == process_update(managers[symbol], msg.data)
           branch == AfterProcessUpdate(r.ret)
           w == WallTracker_update(wall_trackers[symbol], OrderBook(r.mgr.bids, r.mgr.asks),
                                   now + 1)
           o == OFICalculator_update(ofi_calculators[symbol],
                                     OrderBook(r.mgr.bids, r.mgr.asks))
           record == UpdateRecord(symbol, r.mgr, o.state, w.events)
           called == Dispatch(callbacks, raisers)
       IN  /\ managers' = [managers EXCEPT ![symbol] = r.mgr]
           /\ accepted_u' = [accepted_u EXCEPT ![symbol] = IF r.ret = "True" THEN msg.data.u ELSE @]
           /\ since_init' = [since_init EXCEPT ![symbol] = Min(@ + 1, 2)]
           /\ accepted' = IF r.ret = "True" THEN Append(accepted, <<symbol, msg.data.u>>)
                          ELSE accepted
           /\ desynced' = IF r.ret = "False" THEN desynced \cup {symbol} ELSE desynced
           /\ event' = msg.data
           /\ ret' = r.ret
           /\ line' = r.line
           /\ sym' = symbol
           /\ IF branch = "emit"
              THEN /\ wall_trackers' = [wall_trackers EXCEPT ![symbol] = w.tracker]
                   /\ wall_events' = w.events
                   /\ orderbook' = OrderBook(r.mgr.bids, r.mgr.asks)
                   /\ ofi_calculators' = [ofi_calculators EXCEPT ![symbol] = o.calc]
                   /\ ofi_returned' = o.state
                   /\ ofi_updates' = [ofi_updates EXCEPT ![symbol] = @ + 1]
                   /\ received' = [i \in 1..Len(callbacks) |->
                                      IF i \in called THEN Append(received[i], record)
                                      ELSE received[i]]
                   /\ raised' = called \cap raisers
                   /\ calls' = <<"process_update", "get_snapshot", "WallTracker.update",
                                 "OFICalculator.update", "callbacks">>
                   /\ pc' = "read"
                   /\ pending' = pending
              ELSE /\ raisers = {}
                   /\ UNCHANGED <<wall_trackers, wall_events, orderbook, ofi_calculators,
                                  received, ofi_returned, ofi_updates>>
                   /\ raised' = {}
                   /\ calls' = IF branch = "resync" THEN <<"process_update", "initialize">>
                               ELSE <<"process_update">>
                   /\ pc' = CASE branch = "resync" -> "resync"
                               [] branch = "raise" -> "sleep"
                               [] OTHER -> "read"
                   /\ pending' = IF branch = "resync" THEN {symbol} ELSE pending
    /\ msgs' = msgs + 1
    /\ now' = now + 1
    /\ op' = "_handle_message"
    /\ UNCHANGED <<symbols, running, callbacks, changes>>
    /\ UNCHANGED daemonVars
    /\ UNCHANGED queryVars

CollectorNext ==
    \/ Start
    \/ Stop
    \/ \E s \in symbols : \E snapshot \in SnapshotsOf(s) : SnapshotArrives(s, snapshot)
    \/ \E s \in symbols : SnapshotFails(s)
    \/ WsConnect
    \/ WsConnectRaises
    \/ StartReturns
    \/ WsRaises
    \/ WsErrorMessage
    \/ WsRemoteClose
    \/ SleepDone
    \/ \E msg \in CollectorMessages : HandleDropped(msg)
    \/ \E msg \in CollectorMessages, raisers \in SUBSET {1} : HandleMessage(msg, raisers)

SpecCollector == CollectorInit /\ [][CollectorNext]_vars

(***************************************************************************)
(* run_daemon.py: DaemonCollector.on_update and _save_latest.  A file is   *)
(* Absent or the payload written to it, complete or cut short.             *)
(***************************************************************************)
\* DaemonCollector(write_interval_sec, ofi_interval_sec,
\* wall_snapshot_interval_sec), in seconds
write_interval_sec == 2
ofi_interval_sec == 3
wall_snapshot_interval_sec == 4

\* datetime.now().timestamp() when the daemon is made: further from 0.0 than
\* any interval
DaemonStartTime == wall_snapshot_interval_sec + 1

\* str(...).upper() of the symbols the records carry
upper ==
    [x \in {"BTCUSDT", "btcusdt", "ETHUSDT", ""} |->
        CASE x = "btcusdt" -> "BTCUSDT"
          [] OTHER -> x]

\* the records on_update is called with; symbol "" is that of a record
\* without one (data.get("symbol", ""))
DaemonRecords ==
    { [symbol |-> x, ofi |-> o] : x \in {"BTCUSDT", "btcusdt", "ETHUSDT"},
                                   o \in {"NEUTRAL"} }
        \cup { [symbol |-> "BTCUSDT", ofi |-> "BUY"], [symbol |-> "", ofi |-> "NEUTRAL"] }

Timeframes == <<"4h", "1h", "15min">>

\* the file tmp.write_text writes to, before it is put in its place
WriteTarget_final_path == "latest_file"

\* tmp = self.latest_file.with_suffix(".json.tmp") (line 96)
WriteTarget == "tmp_file"

\* a dict that keeps the value a key already has
DictSet_first_value_kept(d, k, v) ==
    [x \in DOMAIN d \cup {k} |-> IF x \in DOMAIN d THEN d[x] ELSE v]

\* a getting the value v at key k: d[k] = v of a dict
DictSet(d, k, v) == [x \in DOMAIN d \cup {k} |-> IF x = k THEN v ELSE d[x]]

\* lines 113-121 of on_update, for the record rec of symbol and the clock
\* reading now_ts: the OFI row and the wall snapshot rows that are due
HistoryWrites(symbol, rec, now_ts) ==
    /\ IF now_ts - _last_ofi_ts >= ofi_interval_sec
       THEN /\ ofi_rows' = Append(ofi_rows, [symbol |-> symbol, ofi |-> rec.ofi, ts |-> now_ts])
            /\ _last_ofi_ts' = now_ts
       ELSE UNCHANGED <<ofi_rows, _last_ofi_ts>>
    /\ IF now_ts - _last_wall_ts >= wall_snapshot_interval_sec
       THEN /\ wall_rows' = wall_rows \o
                    [i \in 1..Len(Timeframes) |->
                        [symbol |-> symbol, timeframe |-> Timeframes[i], ts |-> now_ts]]
            /\ _last_wall_ts' = now_ts
       ELSE UNCHANGED <<wall_rows, _last_wall_ts>>

DaemonInit ==
    /\ InitManagers({BTC, ETH})
    /\ wall_trackers = [s \in {BTC, ETH} |-> NewWallTracker(collector_threshold)]
    /\ wall_events = <<>>
    /\ orderbook = OrderBook(<<>>, <<>>)
    /\ now = DaemonStartTime
    /\ InitCollector({BTC, ETH}, <<"on_update">>)
    /\ InitOfi({BTC, ETH})
    /\ InitDaemon
    /\ InitQuery
    /\ op = "__init__"
    /\ sym = BTC

\* what no step of the daemon changes
DaemonFrame ==
    /\ UNCHANGED symbols
    /\ UNCHANGED bookVars
    /\ UNCHANGED <<wall_trackers, wall_events, orderbook>>
    /\ UNCHANGED collectorVars
    /\ UNCHANGED ofiVars
    /\ UNCHANGED queryVars

\* on_update(rec), up to its return or to the call of _save_latest
OnUpdate(rec) ==
    /\ dpc = "idle"
    /\ op' = "on_update"
    /\ LET symbol == upper[rec.symbol]
       IN  /\ on_update_data' = [data |-> rec, symbol |-> symbol, now_ts |-> now]
           /\ IF symbol = ""
              THEN UNCHANGED <<sym, latest_data, _last_ofi_ts, _last_wall_ts, ofi_rows,
                               wall_rows, dpc, saves>>
              ELSE /\ sym' = symbol
                   /\ latest_data' = DictSet(latest_data, symbol, rec)
                   /\ IF now - _last_write_ts >= write_interval_sec
                      THEN /\ saves < MaxSaves
                           /\ saves' = saves + 1
                           /\ dpc' = "write_text"
                           /\ UNCHANGED <<_last_ofi_ts, _last_wall_ts, ofi_rows, wall_rows>>
                      ELSE /\ HistoryWrites(symbol, rec, now)
                           /\ UNCHANGED <<dpc, saves>>
    /\ UNCHANGED <<latest_file, tmp_file, _last_write_ts, now>>
    /\ DaemonFrame

\* the payload of the _save_latest call under way, written out whole or not
Payload(whole) == [exists |-> TRUE, id |-> saves, data |-> latest_data, complete |-> whole]

\* tmp.write_text(...): the file is opened, cut to nothing and part of the
\* payload is in it
WriteTextOpens ==
    /\ dpc = "write_text"
    /\ dpc' = "writing"
    /\ op' = "write_text"
    /\ IF WriteTarget = "tmp_file"
       THEN tmp_file' = Payload(FALSE) /\ UNCHANGED latest_file
       ELSE latest_file' = Payload(FALSE) /\ UNCHANGED tmp_file
    /\ UNCHANGED <<sym, latest_data, _last_write_ts, _last_ofi_ts, _last_wall_ts, ofi_rows,
                   wall_rows, on_update_data, saves, now>>
    /\ DaemonFrame

\* tmp.write_text(...) returns: the whole payload is in the file
WriteTextEnds ==
    /\ dpc = "writing"
    /\ dpc' = "replace"
    /\ op' = "write_text"
    /\ IF WriteTarget = "tmp_file"
       THEN tmp_file' = Payload(TRUE) /\ UNCHANGED latest_file
       ELSE latest_file' = Payload(TRUE) /\ UNCHANGED tmp_file
    /\ UNCHANGED <<sym, latest_data, _last_write_ts, _last_ofi_ts, _last_wall_ts, ofi_rows,
                   wall_rows, on_update_data, saves, now>>
    /\ DaemonFrame

\* tmp.write_text(...) or tmp.replace(...) raises: on_update ends with the
\* exception, the files staying as they are
SaveLatestFails ==
    /\ dpc \in {"write_text", "writing", "replace"}
    /\ dpc' = "idle"
    /\ op' = "_save_latest_raised"
    /\ UNCHANGED <<sym, latest_data, latest_file, tmp_file, _last_write_ts, _last_ofi_ts,
                   _last_wall_ts, ofi_rows, wall_rows, on_update_data, saves, now>>
    /\ DaemonFrame

\* tmp.replace(self.latest_file), and on_update from line 111 to its end
Replace ==
    /\ dpc = "replace"
    /\ tmp_file.exists
    /\ dpc' = "idle"
    /\ op' = "on_update_done"
    /\ latest_file' = tmp_file
    /\ tmp_file' = Absent
    /\ _last_write_ts' = on_update_data.now_ts
    /\ HistoryWrites(on_update_data.symbol, on_update_data.data, on_update_data.now_ts)
    /\ UNCHANGED <<sym, latest_data, on_update_data, saves, now>>
    /\ DaemonFrame

\* a second passes
DaemonTick ==
    /\ now < DaemonStartTime + MaxTime
    /\ now' = now + 1
    /\ op' = "tick"
    /\ UNCHANGED sym
    /\ UNCHANGED daemonVars
    /\ UNCHANGED queryVars
    /\ DaemonFrame

NextDaemon ==
    \/ \E rec \in DaemonRecords : OnUpdate(rec)
    \/ WriteTextOpens
    \/ WriteTextEnds
    \/ SaveLatestFails
    \/ Replace
    \/ DaemonTick

SpecDaemon == DaemonInit /\ [][NextDaemon]_vars

(***************************************************************************)
(* Properties of OrderBookManager.process_update                           *)
(***************************************************************************)
\* the four fields of a manager the claims speak of
SameBook(m1, m2) ==
    /\ m1.bids = m2.bids
    /\ m1.asks = m2.asks
    /\ m1.last_update_id = m2.last_update_id
    /\ m1._last_u = m2._last_u

\* the U the ordering check reads: the event's U, or its u when U is not sent
EventU(ev) == IF "U" \in ev.has THEN ev.U ELSE ev.u

\* an event shaped as the venue sends them: pu < U <= u
FeedShaped(ev) ==
    /\ {"U", "u", "pu"} \subseteq ev.has
    /\ ev.pu < ev.U /\ ev.U <= ev.u

\* C1: whenever process_update returns false, bids, asks, last_update_id and
\* _last_u are what they were before the call.
C1_FalseLeavesBookUnchanged ==
    [][ (op' = "process_update" /\ ret' = "False")
            => SameBook(managers'[sym'], managers[sym']) ]_vars

\* C2: an event that is not the first after a snapshot (an update was accepted
\* since the last initialize) and whose pu differs from the u of the previously
\* accepted event is rejected, and the book is left unchanged.
C2_PuMismatchRejected ==
    [][ ( /\ op' = "process_update"
          /\ accepted_u[sym'] # 0
          /\ FeedShaped(event')
          /\ event'.pu # accepted_u[sym'] )
            => (ret' # "True" /\ SameBook(managers'[sym'], managers[sym'])) ]_vars

\* C3: the first event processed after initialize seeded the book with
\* lastUpdateId L passes the ordering check iff U <= L+1 <= u; otherwise it is
\* rejected.
C3_FirstEventOrdering ==
    [][ ( /\ op' = "process_update"
          /\ managers[sym']._initialized
          /\ since_init[sym'] = 0
          /\ {"U", "u"} \subseteq event'.has )
            => LET L == managers[sym'].last_update_id
                   covers == event'.U <= L + 1 /\ L + 1 <= event'.u
               IN  /\ (line' \notin {91, 94}) <=> covers
                   /\ ~covers => ret' = "False" ]_vars

\* C3 happens: a first event after a snapshot that covers L+1 from both sides
\* was let through, and one that starts beyond L+1 was turned away
C3_Witness ==
    /\ op = "process_update" /\ since_init[sym] = 1 /\ "U" \in event.has
    /\ ret = "True"
    /\ event.U < event.u
    /\ managers[sym].last_update_id = event.u

C3_WitnessRejected ==
    /\ op = "process_update" /\ since_init[sym] = 1 /\ "U" \in event.has
    /\ line = 91
    /\ event.U > managers[sym].last_update_id + 1

StrictlyDescending(levels) ==
    \A i \in 1..(Len(levels) - 1) : levels[i].price > levels[i + 1].price

StrictlyAscending(levels) ==
    \A i \in 1..(Len(levels) - 1) : levels[i].price < levels[i + 1].price

\* C4: after an accepted update bids are strictly descending and asks strictly
\* ascending in price (so no price occurs twice on a side), and
\* best_bid < best_ask whenever both sides are non-empty.
C4_AcceptedBookOrdered ==
    (op = "process_update" /\ ret = "True") =>
        LET ob == managers[sym]
        IN  /\ StrictlyDescending(ob.bids)
            /\ StrictlyAscending(ob.asks)
            /\ (Len(ob.bids) > 0 /\ Len(ob.asks) > 0) => ob.bids[1].price < ob.asks[1].price

\* C4 happens: an accepted update that wrote two bid levels next to an ask
C4_Witness ==
    /\ op = "process_update" /\ ret = "True"
    /\ Len(event.b) = 2
    /\ Len(managers[sym].bids) = 2
    /\ Len(managers[sym].asks) > 0

\* the book an event would leave behind, were it applied
Applied(m, ev) ==
    [bids |-> Truncate(_apply_update(ev.b, m.bids, TRUE), depth),
     asks |-> Truncate(_apply_update(ev.a, m.asks, FALSE), depth)]

\* the ordering predicate of C5: the first event after a snapshot covers L+1,
\* a later one names the previous event's u as its pu
OrderingPredicate(s, m, ev) ==
    IF since_init[s] = 0
    THEN "U" \in ev.has /\ ev.U <= m.last_update_id + 1 /\ m.last_update_id + 1 <= ev.u
    ELSE /\ accepted_u[s] # 0 /\ m._last_u = accepted_u[s]
         /\ FeedShaped(ev) /\ ev.pu = accepted_u[s]

\* C5: an event that follows a snapshot and accepted events only, satisfies
\* the ordering predicate and does not cross the book is accepted, and
\* last_update_id strictly increases.
C5_OrderedEventsAccepted ==
    [][ ( /\ op' = "process_update"
          /\ managers[sym']._initialized
          /\ {"u", "b", "a"} \subseteq event'.has
          /\ LevelsParse(event'.b) /\ LevelsParse(event'.a)
          /\ OrderingPredicate(sym', managers[sym'], event')
          /\ ~Crossed(Applied(managers[sym'], event')) )
            => /\ ret' = "True"
               /\ managers'[sym'].last_update_id > managers[sym'].last_update_id ]_vars

(***************************************************************************)
(* Properties of WallTracker.update                                        *)
(***************************************************************************)
\* the keys (price, side) a tracker holds
TrackedKeys(tracker) ==
    {<<tracker.walls[i].price, tracker.walls[i].side>> : i \in 1..Len(tracker.walls)}

\* the levels of one side of a book
SideLevels(ob, side) == IF side = BID THEN ob.bids ELSE ob.asks

\* key k is a level of the book
InBook(ob, k) ==
    \E i \in 1..Len(SideLevels(ob, k[2])) : SideLevels(ob, k[2])[i].price = k[1]

\* key k is a level of the book whose price * quantity reaches the threshold
SizedInBook(ob, k, threshold) ==
    \E i \in 1..Len(SideLevels(ob, k[2])) :
        /\ SideLevels(ob, k[2])[i].price = k[1]
        /\ k[1] * SideLevels(ob, k[2])[i].quantity >= threshold

\* how many events of a type the list holds for key k
EventCount(events, type, k) ==
    Cardinality({i \in 1..Len(events) :
                    events[i].type = type /\ <<events[i].price, events[i].side>> = k})

EventKeys(events) == {<<events[i].price, events[i].side>> : i \in 1..Len(events)}

\* C9: an update emits exactly one NEW_WALL for each key that was not tracked
\* and is seen with notional >= threshold, exactly one WALL_REMOVED for each
\* tracked key whose price is absent from the book, none for any other key,
\* and tracks afterwards the old keys and the new ones without the removed.
C9_OneNewOneRemovedPerKey ==
    [][ op' = "WallTracker.update" =>
        LET before == TrackedKeys(wall_trackers[sym'])
            after == TrackedKeys(wall_trackers'[sym'])
            ob == orderbook'
            threshold == wall_trackers[sym'].threshold
            born == {k \in {<<p, sd>> : p \in {990, 1000, 1002, 1006, 1040, 1050}, sd \in {BID, ASK}} :
                        k \notin before /\ SizedInBook(ob, k, threshold)}
            gone == {k \in before : ~InBook(ob, k)}
        IN  /\ \A k \in before \cup after \cup EventKeys(wall_events') \cup born :
                /\ EventCount(wall_events', "NEW_WALL", k) = IF k \in born THEN 1 ELSE 0
                /\ EventCount(wall_events', "WALL_REMOVED", k) = IF k \in gone THEN 1 ELSE 0
            /\ after = (before \cup born) \ gone
            /\ Len(wall_trackers'[sym'].walls) = Cardinality(after) ]_vars

\* C9 happens: one update reported a wall's birth and another wall's removal
C9_Witness ==
    /\ op = "WallTracker.update"
    /\ \E i, j \in 1..Len(wall_events) :
        /\ wall_events[i].type = "NEW_WALL"
        /\ wall_events[j].type = "WALL_REMOVED"

\* C10: a wall that stays tracked over a step that changes neither its
\* replenish_count nor its test_count has afterwards a persistence_score not
\* smaller than before.
C10_PersistenceNonDecreasing ==
    [][ \A s \in symbols :
          \A i \in 1..Len(wall_trackers[s].walls), j \in 1..Len(wall_trackers'[s].walls) :
            LET w == wall_trackers[s].walls[i]
                v == wall_trackers'[s].walls[j]
            IN  ( /\ v.price = w.price /\ v.side = w.side
                  /\ v.replenish_count = w.replenish_count
                  /\ v.test_count = w.test_count )
                    => FracGeq(persistence_score(v, now'), persistence_score(w, now)) ]_vars

\* C10 happens: a wall was seen again without a replenish or a test and has
\* aged since, and another was tested and has aged since
C10_Witness ==
    /\ \E i \in 1..Len(wall_trackers[BTC].walls) :
        LET w == wall_trackers[BTC].walls[i]
        IN  /\ w.last_seen > w.first_seen
            /\ w.replenish_count = 0 /\ w.test_count = 0
            /\ now > w.last_seen
    /\ \E i \in 1..Len(wall_trackers[BTC].walls) :
        LET w == wall_trackers[BTC].walls[i]
        IN  w.test_count > 0 /\ now > w.last_seen

(***************************************************************************)
(* Properties of DataCollector._handle_message                             *)
(***************************************************************************)
\* C6: every subscriber has received exactly one record per accepted update,
\* in the order of acceptance, and of two consecutive records of one symbol
\* the later one comes from a book with a strictly greater last_update_id,
\* also when the symbol was re-initialized in between.
C6_RecordsInStrictIdOrder ==
    \A c \in 1..Len(callbacks) :
        /\ Len(received[c]) = Len(accepted)
        /\ \A k \in 1..Len(accepted) :
            /\ received[c][k].symbol = accepted[k][1]
            /\ received[c][k].book_id = accepted[k][2]
        /\ \A k, l \in 1..Len(received[c]) :
            ( /\ k < l
              /\ received[c][k].symbol = received[c][l].symbol
              /\ \A x \in (k + 1)..(l - 1) : received[c][x].symbol # received[c][k].symbol )
                => received[c][k].book_id < received[c][l].book_id

\* C7: a message whose process_update returns false makes the handler call
\* initialize on that symbol's manager and nothing else: no subscriber is
\* called, and neither WallTracker.update nor OFICalculator.update.
C7_FailureOnlyReinitializes ==
    [][ (op' = "_handle_message" /\ calls' # <<>> /\ ret' = "False")
            => /\ calls' = <<"process_update", "initialize">>
               /\ pc' = "resync"
               /\ pending' = {sym'}
               /\ received' = received
               /\ wall_trackers' = wall_trackers
               /\ ofi_calculators' = ofi_calculators ]_vars

\* C7 happens: after records were emitted, an update of a symbol with tracked
\* walls was rejected and its initialize() is awaited
C7_Witness ==
    /\ op = "_handle_message" /\ ret = "False"
    /\ pc = "resync" /\ pending = {sym}
    /\ Len(accepted) > 0
    /\ Len(wall_trackers[sym].walls) > 0

\* C8: every callback is called with every record, whichever callbacks
\* raise, and a handler in which a callback raised returns to the read loop,
\* which stands ready for the next message.
C8_SubscriberErrorsIsolated ==
    /\ \A c \in 1..Len(callbacks) :
        /\ Len(received[c]) = Len(accepted)
        /\ \A d \in 1..Len(callbacks) : received[c] = received[d]
    /\ (op = "_handle_message" /\ raised # {}) => pc = "read"

\* C8 happens: the first callback raised on a record, the second got the same
\* record, and a record dispatched before shows the loop had gone on
C8_Witness ==
    /\ op = "_handle_message"
    /\ raised = {1}
    /\ Len(received[2]) >= 2
    /\ received[2][Len(received[2])] = received[1][Len(received[1])]
    /\ received[2][Len(received[2])].symbol = sym

(***************************************************************************)
(* Properties of OFICalculator.update                                      *)
(***************************************************************************)
\* C11: each of the first 19 update calls of a calculator newly made or reset
\* returns a z_score of exactly 0 and the signal NEUTRAL, whatever books it
\* is shown.
C11_FirstUpdatesNeutral ==
    (op = "OFICalculator.update" /\ ofi_updates[sym] <= 19)
        => (ofi_returned.z_is_zero /\ ofi_returned.signal = "NEUTRAL")

\* C11 happens: the 19th update call returns a raw OFI and an EMA other than
\* zero, with 18 entries of history behind it
C11_Witness ==
    /\ op = "OFICalculator.update"
    /\ ofi_updates[BTC] = 19
    /\ Len(ofi_calculators[BTC]._history) = 18
    /\ ofi_returned.raw # 0
    /\ ofi_returned.ema.num # 0
    /\ ofi_returned.z_is_zero

(***************************************************************************)
(* Properties of DaemonCollector                                           *)
(***************************************************************************)
\* C13: at every moment, in the middle of a write and after a write that
\* failed part-way too, latest.json is absent or holds one complete payload
\* of one _save_latest call.
C13_LatestFileAlwaysComplete ==
    latest_file.exists => (latest_file.complete /\ latest_file.id \in 1..saves)

\* C13 happens: a later write failed part-way and left its cut payload in
\* the temporary file, beside the complete latest.json of an earlier call
C13_Witness ==
    /\ dpc = "idle"
    /\ op = "_save_latest_raised"
    /\ tmp_file.exists /\ ~tmp_file.complete
    /\ latest_file.exists /\ latest_file.id < tmp_file.id

\* the clock reading of the last row of the symbol s in rows, 0.0 without one
LastRowTs(rows, s) ==
    LET ts == {rows[i].ts : i \in {j \in 1..Len(rows) : rows[j].symbol = s}}
    IN  IF ts = {} THEN 0 ELSE CHOOSE t \in ts : \A x \in ts : x <= t

\* C14: the schedules are per symbol: an on_update of a symbol that runs to
\* its end writes the wall snapshots of the three timeframes of that symbol
\* once wall_snapshot_interval_sec has passed since the symbol's last ones,
\* whatever the other symbols got, and the OFI rows of one symbol are
\* ofi_interval_sec apart or more.
C14_SchedulesPerSymbol ==
    [][ (dpc' = "idle" /\ op' \in {"on_update", "on_update_done"}
            /\ on_update_data'.symbol # "")
        => LET s == on_update_data'.symbol
               t == on_update_data'.now_ts
           IN  /\ t - LastRowTs(wall_rows, s) >= wall_snapshot_interval_sec
                    => \A i \in 1..Len(Timeframes) :
                          \E k \in 1..Len(wall_rows') :
                              wall_rows'[k] = [symbol |-> s, timeframe |-> Timeframes[i],
                                               ts |-> t]
               /\ \A k, l \in 1..Len(ofi_rows') :
                    (k < l /\ ofi_rows'[k].symbol = s /\ ofi_rows'[l].symbol = s)
                        => ofi_rows'[l].ts - ofi_rows'[k].ts >= ofi_interval_sec ]_vars

(***************************************************************************)
(* Properties of DataCollector.start and stop                              *)
(***************************************************************************)
\* C15: whenever the websocket connection ends while the collector is
\* running (an exception, an ERROR message or a remote close), the collector
\* sleeps before it connects again, and the sleep lasts 5 seconds.
C15_ReconnectAfterSleep ==
    [][ /\ (running /\ pc = "read" /\ pc' \notin {"read", "resync"}) => pc' = "sleep"
        /\ (pc = "sleep" /\ pc' # "sleep") => (pc' = "connect" /\ now' = now + 5) ]_vars

\* C16: once stop() was called no further message is taken from the
\* websocket and passed to process_update or to the subscribers.
C16_NoMessageAfterStop ==
    [][ (~running /\ pc = "read")
            => ~(op' = "_handle_message" /\ calls' # <<>>) ]_vars

(***************************************************************************)
(* Properties of DataCollector._handle_message: messages it cannot handle  *)
(***************************************************************************)
\* an event that lacks a required field or holds a level that is no number
Malformed(ev) ==
    \/ {"u", "b", "a"} \ ev.has # {}
    \/ ~LevelsParse(ev.b)
    \/ ~LevelsParse(ev.a)

\* C17: a message that cannot be handled (undecodable text, a stream of a
\* symbol not configured, an event missing a required field) gives no
\* subscriber a record and raises nothing to the read loop, which goes on
\* with the next message (after the re-initialization, when the event failed
\* the ordering check before the missing field was read).
C17_UnhandledMessageDropped ==
    [][ (op' = "_handle_message" /\ (calls' = <<>> \/ Malformed(event')))
            => /\ received' = received
               /\ accepted' = accepted
               /\ raised' = {}
               /\ pc' \in {"read", "resync"}
               /\ pc' = "resync" => ret' = "False" ]_vars

\* C17 happens: after records were emitted, an event without asks ended in a
\* KeyError inside process_update and the read loop stands ready
C17_Witness ==
    /\ op = "_handle_message"
    /\ ret = "KeyError" /\ line = 97
    /\ Malformed(event)
    /\ pc = "read"
    /\ Len(accepted) > 0
    /\ msgs < MaxMsgs

(***************************************************************************)
(* Properties of the re-initialization after a desync                      *)
(***************************************************************************)
\* C18: after a desync was detected for a symbol its book is seeded again
\* from a snapshot before an update of the symbol is accepted and emitted: a
\* re-initialization that failed is tried again, and no record comes from
\* the book while the re-initialization is owed.
C18_DesyncedBookReseededFirst ==
    [][ (op' = "_handle_message" /\ calls' # <<>> /\ ret' = "True")
            => sym' \notin desynced ]_vars

\* C19: the re-initialization of one symbol runs in the background: while
\* its REST request is pending a message of another symbol can be handled
\* and its record emitted.
C19_ResyncInBackground ==
    (pc = "resync" /\ msgs < MaxMsgs)
        => \A s \in symbols \ pending :
              ENABLED (\E msg \in CollectorMessages :
                          /\ msg.json
                          /\ symbol_of[msg.stream] = s
                          /\ HandleMessage(msg, {}))

(***************************************************************************)
(* The book an accepted update leaves behind                               *)
(***************************************************************************)
\* the prices a list of [price, quantity] strings mentions
Mentioned(updates) == {float[updates[i][1]] : i \in 1..Len(updates)}

\* the quantity the last occurrence of price p in updates carries
LastQuantity(updates, p) ==
    LET last == CHOOSE i \in 1..Len(updates) :
                    /\ float[updates[i][1]] = p
                    /\ \A j \in (i + 1)..Len(updates) : float[updates[j][1]] # p
    IN  float[updates[last][2]]

\* the price -> quantity map of prev overridden by updates: a mentioned
\* price is there iff its last quantity is not zero, any other price is kept
Overridden(prev, updates) ==
    LET kept == {prev[i].price : i \in 1..Len(prev)} \ Mentioned(updates)
        put == {p \in Mentioned(updates) : LastQuantity(updates, p) # 0}
    IN  [p \in kept \cup put |->
            IF p \in put THEN LastQuantity(updates, p)
            ELSE prev[CHOOSE i \in 1..Len(prev) : prev[i].price = p].quantity]

\* side holds the first depth levels of the overridden map, best price first
IsOverriddenSide(side, prev, updates, reverse) ==
    LET want == Overridden(prev, updates)
        held == {side[i].price : i \in 1..Len(side)}
    IN  /\ Len(side) = Min(depth, Cardinality(DOMAIN want))
        /\ held \subseteq DOMAIN want
        /\ \A i \in 1..Len(side) : side[i].quantity = want[side[i].price]
        /\ IF reverse THEN StrictlyDescending(side) ELSE StrictlyAscending(side)
        /\ \A p \in DOMAIN want \ held : \A q \in held :
              IF reverse THEN p < q ELSE p > q

\* C20: after an accepted update with final id u each side is the previous
\* side overridden by the event's levels (a zero quantity removes the price,
\* another quantity replaces or inserts it, the last occurrence of a price
\* wins, a price the event does not mention is kept), sorted and cut to the
\* first depth levels, and last_update_id = _last_u = u.
C20_AcceptedUpdateOverrides ==
    [][ (op' = "process_update" /\ ret' = "True") =>
            LET before == managers[sym']
                after == managers'[sym']
            IN  /\ IsOverriddenSide(after.bids, before.bids, event'.b, TRUE)
                /\ IsOverriddenSide(after.asks, before.asks, event'.a, FALSE)
                /\ after.last_update_id = event'.u
                /\ after._last_u = event'.u ]_vars

\* C20 happens: an accepted update that names the price 3 twice (removal,
\* then quantity 1) on a full bid side: 3 is inserted with the last
\* quantity, 2 is kept and the level beyond depth is cut
C20_Witness ==
    /\ op = "process_update" /\ ret = "True"
    /\ event.b = << <<"3", "0">>, <<"3.0", "1">> >>
    /\ managers[sym].bids = <<PriceLevel(3, 1), PriceLevel(2, 1)>>
    /\ managers[sym].last_update_id = event.u

(***************************************************************************)
(* Properties of the post-apply check                                      *)
(***************************************************************************)
\* both sides hold a level and the best bid is not below the best ask
BothSidesCrossed(ob) ==
    /\ Len(ob.bids) > 0 /\ Len(ob.asks) > 0
    /\ ob.bids[1].price >= ob.asks[1].price

\* C21: when an event that passed the ordering check was applied and left
\* both sides non-empty with best_bid >= best_ask, process_update returned
\* False and the handler only re-initializes; the book handed to
\* WallTracker.update and OFICalculator.update and the best prices of every
\* record a subscriber received are never crossed.
C21_CrossedBookNeverHanded ==
    /\ ( /\ op = "_handle_message" /\ calls # <<>> /\ line > 97
          /\ BothSidesCrossed(managers[sym]) )
          => (ret = "False" /\ calls = <<"process_update", "initialize">>)
    /\ ~BothSidesCrossed(orderbook)
    /\ \A i \in 1..Len(received) : \A j \in 1..Len(received[i]) :
          (received[i][j].best_bid # None /\ received[i][j].best_ask # None)
              => received[i][j].best_bid < received[i][j].best_ask

\* C21 happens: an applied event left the best bid at the best ask, it was
\* rejected at line 108 and the trackers were not called
C21_Witness ==
    /\ op = "_handle_message" /\ calls # <<>> /\ line = 108 /\ ret = "False"
    /\ BothSidesCrossed(managers[sym])
    /\ managers[sym].bids[1].price = managers[sym].asks[1].price
    /\ managers[sym].last_update_id = event.u

(***************************************************************************)
(* Properties of WallTracker._process_side and _cleanup_dead_walls         *)
(***************************************************************************)
\* the wall tracked under key k
WallOf(tracker, k) == tracker.walls[WallIndex(tracker.walls, k[1], k[2])]

\* the quantity of the level of key k in the book
QtyInBook(ob, k) ==
    LET levels == SideLevels(ob, k[2])
    IN  levels[CHOOSE i \in 1..Len(levels) : levels[i].price = k[1]].quantity

\* every tracked wall has peak_qty >= current_qty
PeakCoversCurrent ==
    \A s \in symbols : \A i \in 1..Len(wall_trackers[s].walls) :
        wall_trackers[s].walls[i].peak_qty >= wall_trackers[s].walls[i].current_qty

\* C22: for a wall already tracked and observed with notional >= threshold,
\* replenish_count grows by exactly 1 and one WALL_REPLENISH is emitted iff
\* the new quantity is greater than 1.2 times the tracked current_qty;
\* afterwards current_qty is the new quantity and peak_qty the maximum of the
\* old peak_qty and the new quantity; peak_qty >= current_qty in every state.
C22_ReplenishOnGrowth ==
    /\ []PeakCoversCurrent
    /\ [][ op' = "WallTracker.update" =>
            \A k \in TrackedKeys(wall_trackers[sym']) :
                SizedInBook(orderbook', k, wall_trackers[sym'].threshold) =>
                    LET w == WallOf(wall_trackers[sym'], k)
                        v == WallOf(wall_trackers'[sym'], k)
                        qty == QtyInBook(orderbook', k)
                        grown == 10 * qty > 12 * w.current_qty
                    IN  /\ k \in TrackedKeys(wall_trackers'[sym'])
                        /\ v.replenish_count = w.replenish_count + (IF grown THEN 1 ELSE 0)
                        /\ EventCount(wall_events', "WALL_REPLENISH", k) = (IF grown THEN 1 ELSE 0)
                        /\ v.current_qty = qty
                        /\ v.peak_qty = Max(w.peak_qty, qty) ]_vars

\* C22 happens: a wall replenished once was seen again with a smaller
\* quantity, so that its peak stays above its current quantity
C22_Witness ==
    /\ op = "WallTracker.update"
    /\ \E i \in 1..Len(wall_trackers[sym].walls) :
        LET w == wall_trackers[sym].walls[i]
        IN  /\ w.replenish_count = 1
            /\ w.peak_qty > w.current_qty
            /\ w.last_seen = now

\* C23: test_count grows by exactly 1 on an update iff the wall was tracked
\* before it, its level is observed with notional >= threshold, the mid price
\* exists and |mid - price| / price < 0.003; a wall created by the update has
\* test_count 0, and the test_count of a tracked wall never decreases.
C23_TestCountedNearMid ==
    [][ /\ op' = "WallTracker.update" =>
            \A k \in TrackedKeys(wall_trackers'[sym']) :
                LET v == WallOf(wall_trackers'[sym'], k)
                    mid2 == IF Len(orderbook'.bids) > 0 /\ Len(orderbook'.asks) > 0
                            THEN orderbook'.bids[1].price + orderbook'.asks[1].price
                            ELSE None
                    dist2 == IF mid2 >= 2 * k[1] THEN mid2 - 2 * k[1] ELSE 2 * k[1] - mid2
                    tested == /\ k \in TrackedKeys(wall_trackers[sym'])
                              /\ SizedInBook(orderbook', k, wall_trackers[sym'].threshold)
                              /\ mid2 # None
                              /\ 1000 * dist2 < 6 * k[1]
                IN  IF k \in TrackedKeys(wall_trackers[sym'])
                    THEN v.test_count = WallOf(wall_trackers[sym'], k).test_count
                                            + (IF tested THEN 1 ELSE 0)
                    ELSE v.test_count = 0
        /\ \A s \in symbols :
             \A k \in TrackedKeys(wall_trackers[s]) \cap TrackedKeys(wall_trackers'[s]) :
                WallOf(wall_trackers'[s], k).test_count >= WallOf(wall_trackers[s], k).test_count
      ]_vars

\* C23 happens: after the update one wall has been tested and another, at
\* exactly 0.003 of the mid price, has been seen twice without a test
C23_Witness ==
    /\ op = "WallTracker.update"
    /\ orderbook.bids # <<>> /\ orderbook.asks # <<>>
    /\ orderbook.bids[1].price = 1000 /\ orderbook.asks[1].price = 1006
    /\ \E i, j \in 1..Len(wall_trackers[sym].walls) :
        LET w == wall_trackers[sym].walls[i]
            x == wall_trackers[sym].walls[j]
        IN  /\ w.price = 1000 /\ w.side = BID /\ w.test_count = 0
            /\ w.last_seen = now /\ w.first_seen < now
            /\ x.side = ASK /\ x.test_count > 0

\* C24: at the end of an update every wall tracked before it whose
\* (price, side) is not a level of the book is dropped, with one WALL_REMOVED
\* event whose reason is "consumed" iff its test_count > 0 and "cancelled"
\* otherwise; after the update the key of every tracked wall is a level of
\* the book just processed.
C24_DeadWallsRemoved ==
    [][ op' = "WallTracker.update" =>
          /\ \A k \in TrackedKeys(wall_trackers[sym']) :
                ~InBook(orderbook', k) =>
                    /\ k \notin TrackedKeys(wall_trackers'[sym'])
                    /\ \E i \in 1..Len(wall_events') :
                          /\ wall_events'[i].type = "WALL_REMOVED"
                          /\ <<wall_events'[i].price, wall_events'[i].side>> = k
                          /\ \A j \in 1..Len(wall_events') :
                                ( /\ wall_events'[j].type = "WALL_REMOVED"
                                  /\ <<wall_events'[j].price, wall_events'[j].side>> = k )
                                    => j = i
                          /\ wall_events'[i].reason = "consumed"
                                <=> WallOf(wall_trackers[sym'], k).test_count > 0
                          /\ wall_events'[i].reason \in {"consumed", "cancelled"}
          /\ \A k \in TrackedKeys(wall_trackers'[sym']) : InBook(orderbook', k) ]_vars

\* C24 happens: one update removed a wall that had been tested and a wall
\* that had not
C24_Witness ==
    /\ op = "WallTracker.update"
    /\ \E i, j \in 1..Len(wall_events) :
        /\ wall_events[i].type = "WALL_REMOVED" /\ wall_events[i].reason = "consumed"
        /\ wall_events[j].type = "WALL_REMOVED" /\ wall_events[j].reason = "cancelled"

\* the position of the level of price p on a side of the book
LevelPosition(ob, side, p) ==
    CHOOSE i \in 1..Len(SideLevels(ob, side)) : SideLevels(ob, side)[i].price = p

\* C25: in the list one update returns every bid-side NEW_WALL or
\* WALL_REPLENISH precedes every ask-side one, the events of a side follow
\* the order of the levels of the book, and every WALL_REMOVED comes after
\* all NEW_WALL and WALL_REPLENISH events.
C25_EventOrder ==
    op = "WallTracker.update" =>
        \A i, j \in 1..Len(wall_events) :
            LET e == wall_events[i]
                f == wall_events[j]
            IN  i < j =>
                  /\ e.type = "WALL_REMOVED" => f.type = "WALL_REMOVED"
                  /\ (e.type # "WALL_REMOVED" /\ f.type # "WALL_REMOVED") =>
                        /\ ~(e.side = ASK /\ f.side = BID)
                        /\ e.side = f.side =>
                              LevelPosition(orderbook, e.side, e.price)
                                  < LevelPosition(orderbook, f.side, f.price)

\* C25 happens: one list holds the events of two bid levels, then one of an
\* ask level, then a removal
C25_Witness ==
    /\ op = "WallTracker.update"
    /\ Len(wall_events) >= 4
    /\ wall_events[1].side = BID /\ wall_events[1].type # "WALL_REMOVED"
    /\ wall_events[2].side = BID /\ wall_events[2].type # "WALL_REMOVED"
    /\ wall_events[3].side = ASK /\ wall_events[3].type # "WALL_REMOVED"
    /\ wall_events[4].type = "WALL_REMOVED"

(***************************************************************************)
(* Properties of Wall.is_real and WallTracker.get_wall_map                 *)
(***************************************************************************)
\* age and score of wall w reach min_age minutes and min_persistence, the
\* score being age * 0.5 for an untested wall and
\* age * (1 + replenish_count / test_count) for a tested one
ReachesBoth(w, t, min_age, min_persistence) ==
    /\ t - w.first_seen >= 60 * min_age
    /\ IF w.test_count = 0
       THEN t - w.first_seen >= 120 * min_persistence
       ELSE (t - w.first_seen) * (w.test_count + w.replenish_count)
                >= 60 * min_persistence * w.test_count

\* is_real as the claim states it
RealAt(w, tf, t) ==
    CASE tf = "4h" -> ReachesBoth(w, t, 120, 150)
      [] tf = "15min" -> ReachesBoth(w, t, 10, 15)
      [] OTHER -> ReachesBoth(w, t, 30, 40)

\* C26: is_real(timeframe) is true iff age_minutes >= min_age and
\* persistence_score >= min_persistence for the timeframe's parameters
\* (4h: 120/150, 1h: 30/40, 15min: 10/15); for any other timeframe name the
\* result is that of is_real("1h").
C26_RealByTimeframe ==
    op = "is_real" =>
        (real <=> RealAt(wall_trackers[sym].walls[queried], timeframe, now))

\* C26 happens: a wall old enough for 15min but not for 1h was asked with a
\* timeframe outside WALL_PARAMS and is not real
C26_Witness ==
    /\ op = "is_real" /\ timeframe = "1d" /\ ~real
    /\ RealAt(wall_trackers[sym].walls[queried], "15min", now)

\* the score of the tracked wall a listed dict was made from
ScoreOfListed(tracker, d, t) ==
    persistence_score(WallOf(tracker, <<d.price, d.side>>), t)

\* listed holds at most WallMapLimit real walls of the side, best score
\* first, no real wall of the side left out scoring higher than a listed
\* one, and total counts the real walls of the side
ListsSide(tracker, listed, total, side, tf, t) ==
    LET reals == {i \in 1..Len(tracker.walls) :
                    tracker.walls[i].side = side /\ RealAt(tracker.walls[i], tf, t)}
        keys == {<<listed[i].price, listed[i].side>> : i \in 1..Len(listed)}
    IN  /\ Len(listed) <= 5
        /\ Len(listed) = Min(5, Cardinality(reals))
        /\ total = Cardinality(reals)
        /\ Cardinality(keys) = Len(listed)
        /\ \A i \in 1..Len(listed) :
              /\ listed[i].side = side
              /\ \E j \in reals : /\ tracker.walls[j].price = listed[i].price
                                  /\ listed[i].test_count = tracker.walls[j].test_count
        /\ \A i \in 1..(Len(listed) - 1) :
              FracGeq(ScoreOfListed(tracker, listed[i], t),
                      ScoreOfListed(tracker, listed[i + 1], t))
        /\ \A j \in reals :
              <<tracker.walls[j].price, side>> \notin keys =>
                  \A i \in 1..Len(listed) :
                      FracGeq(ScoreOfListed(tracker, listed[i], t),
                              persistence_score(tracker.walls[j], t))

\* C27: get_wall_map(timeframe) lists, for bids and asks apart, only tracked
\* walls of the side that are real at the timeframe, at most 5 a side, in
\* non-increasing persistence_score order with no real wall outside the list
\* scoring higher than one inside, total_bid_walls and total_ask_walls count
\* the real walls of each side, and the call leaves the walls as they were.
C27_WallMapTopFive ==
    [][ op' = "get_wall_map" =>
          /\ ListsSide(wall_trackers[sym'], wall_map'.bid_walls, wall_map'.total_bid_walls,
                       BID, timeframe', now)
          /\ ListsSide(wall_trackers[sym'], wall_map'.ask_walls, wall_map'.total_ask_walls,
                       ASK, timeframe', now)
          /\ wall_map'.timeframe = timeframe'
          /\ wall_trackers' = wall_trackers ]_vars

\* C27 happens: a map that lists five of six real bid walls, two of them of
\* equal score, and the one real ask wall
C27_Witness ==
    /\ op = "get_wall_map"
    /\ Len(wall_map.bid_walls) = 5 /\ wall_map.total_bid_walls = 6
    /\ \E i \in 1..4 :
          ScoreOfListed(wall_trackers[sym], wall_map.bid_walls[i], now)
              = ScoreOfListed(wall_trackers[sym], wall_map.bid_walls[i + 1], now)
    /\ Len(wall_map.ask_walls) = 1 /\ wall_map.total_ask_walls = 1

(***************************************************************************)
(* Properties of OFICalculator                                             *)
(***************************************************************************)
\* the sum of the quantities of the first d levels
RECURSIVE TopQuantity(_, _)
TopQuantity(levels, d) ==
    IF d = 0 \/ levels = <<>> THEN 0
    ELSE levels[1].quantity + TopQuantity(Tail(levels), d - 1)

\* C28: on every update after the first, raw is (the quantity of the current
\* top-depth bids minus that of the top-depth bids of the call before) minus
\* (the same difference for asks); the first update after construction or
\* reset returns a zeroed OFIState and adds nothing to the EMA or the history.
C28_RawIsChangeOfTopQuantity ==
    [][ op' = "OFICalculator.update" =>
          LET before == ofi_calculators[sym']
              after == ofi_calculators'[sym']
              d == before.depth
          IN  IF ofi_updates[sym'] = 0
              THEN /\ ofi_returned' = ZeroOFIState
                   /\ after._history = <<>> /\ before._history = <<>>
                   /\ after._ema = Frac(0, 1)
                   /\ ~after._initialized
              ELSE ofi_returned'.raw =
                      (TopQuantity(orderbook'.bids, d) - TopQuantity(orderbook.bids, d))
                        - (TopQuantity(orderbook'.asks, d) - TopQuantity(orderbook.asks, d))
      ]_vars

\* C28 happens: an update after a reset and two more updates, where the best
\* ask moved to another price and raw is not zero
C28_Witness ==
    /\ op = "OFICalculator.update"
    /\ ofi_updates[sym] = 2
    /\ ofi_returned.raw < 0
    /\ orderbook.asks[1].price = 4
    /\ Len(ofi_calculators[sym]._history) = 1

\* z > c and z < -c for c >= 0, z being ema / std of a returned state
StateZAbove(st, c) ==
    /\ ~st.z_is_zero /\ st.ema.num > 0
    /\ st.ema.num * st.ema.num * st.variance.den
          > c * c * st.variance.num * st.ema.den * st.ema.den

StateZBelowMinus(st, c) ==
    /\ ~st.z_is_zero /\ st.ema.num < 0
    /\ st.ema.num * st.ema.num * st.variance.den
          > c * c * st.variance.num * st.ema.den * st.ema.den

\* C29: the signal of a returned OFIState follows from its z_score alone:
\* STRONG_BUY iff z > 2, BUY iff 1 < z <= 2, STRONG_SELL iff z < -2, SELL iff
\* -2 <= z < -1, NEUTRAL iff -1 <= z <= 1; with a history of standard
\* deviation 0 the z_score is 0 and the signal NEUTRAL.
C29_SignalFromZScore ==
    LET st == ofi_returned
    IN  /\ st.signal = "STRONG_BUY" <=> StateZAbove(st, 2)
        /\ st.signal = "BUY" <=> (StateZAbove(st, 1) /\ ~StateZAbove(st, 2))
        /\ st.signal = "STRONG_SELL" <=> StateZBelowMinus(st, 2)
        /\ st.signal = "SELL" <=> (StateZBelowMinus(st, 1) /\ ~StateZBelowMinus(st, 2))
        /\ st.signal = "NEUTRAL" <=> (~StateZAbove(st, 1) /\ ~StateZBelowMinus(st, 1))
        /\ st.variance.num = 0 => (st.z_is_zero /\ st.signal = "NEUTRAL")

\* C29 happens: a returned state with z above 1 but not above 2 and the
\* signal BUY
C29_Witness ==
    /\ op = "OFICalculator.update"
    /\ ofi_returned.signal = "BUY"
    /\ StateZAbove(ofi_returned, 1) /\ ~StateZAbove(ofi_returned, 2)
    /\ Len(ofi_calculators[sym]._history) >= 20

\* C30: the history never holds more than history_size entries and is the
\* latest raw values in arrival order, the oldest dropped on overflow;
\* reset() leaves the calculator as a newly constructed one, so the updates
\* after it return what they return on a new calculator.
C30_HistoryBoundedResetFresh ==
    /\ [](\A s \in symbols :
            Len(ofi_calculators[s]._history) <= ofi_calculators[s].maxlen)
    /\ [][ /\ (op' = "OFICalculator.update" /\ ofi_updates[sym'] > 0) =>
                LET h == Append(ofi_calculators[sym']._history, ofi_returned'.raw)
                    n == ofi_calculators[sym'].maxlen
                IN  ofi_calculators'[sym']._history =
                        IF Len(h) > n THEN SubSeq(h, Len(h) - n + 1, Len(h)) ELSE h
           /\ op' = "OFICalculator.reset" =>
                ofi_calculators'[sym'] = NewOFICalculator(1, 1, 21) ]_vars

\* C30 happens: the history is full after its oldest value was dropped, and
\* holds values that differ
C30_Witness ==
    /\ op = "OFICalculator.update"
    /\ ofi_updates[sym] = MaxUpdates
    /\ Len(ofi_calculators[sym]._history) = ofi_calculators[sym].maxlen
    /\ \E i, j \in 1..Len(ofi_calculators[sym]._history) :
          ofi_calculators[sym]._history[i] # ofi_calculators[sym]._history[j]

(***************************************************************************)
(* Properties of DaemonCollector.on_update                                 *)
(***************************************************************************)
\* C31: latest.json is written on the first update after the start and
\* afterwards only on an update that arrives at least write_interval_sec
\* after the previous successful write; latest_data[symbol] is at every
\* moment the record last dispatched for the symbol, and a written payload
\* holds the newest record of every symbol seen so far.
C31_WriteBudgetAndNewestRecords ==
    [][ /\ (op' = "on_update" /\ on_update_data'.symbol # "") =>
              /\ DOMAIN latest_data' = DOMAIN latest_data \cup {on_update_data'.symbol}
              /\ latest_data'[on_update_data'.symbol] = on_update_data'.data
              /\ \A k \in DOMAIN latest_data \ {on_update_data'.symbol} :
                    latest_data'[k] = latest_data[k]
              /\ dpc' = "write_text" <=> now - _last_write_ts >= write_interval_sec
              /\ _last_write_ts = 0 => dpc' = "write_text"
        /\ ~(op' = "on_update" /\ on_update_data'.symbol # "") =>
              latest_data' = latest_data
        /\ latest_file' # latest_file =>
              /\ op' = "on_update_done"
              /\ latest_file'.exists /\ latest_file'.complete
              /\ latest_file'.data = latest_data
              /\ on_update_data.now_ts - _last_write_ts >= write_interval_sec
              /\ _last_write_ts' = on_update_data.now_ts
        /\ _last_write_ts' # _last_write_ts => latest_file' # latest_file ]_vars

\* C31 happens: the second write is in place; it holds the records of both
\* symbols, and an update has come since that was too early for a write
C31_Witness ==
    /\ latest_file.exists /\ latest_file.id = 2
    /\ DOMAIN latest_file.data = {BTC, ETH}
    /\ op = "on_update" /\ dpc = "idle"
    /\ now - _last_write_ts < write_interval_sec
    /\ latest_data # latest_file.data


\* the manager initialize() leaves behind for a response: levels and both ids
\* of the one snapshot
SeededFrom(snapshot) ==
    [bids |-> [i \in 1..Len(snapshot.bids) |->
                  PriceLevel(float[snapshot.bids[i][1]], float[snapshot.bids[i][2]])],
     asks |-> [i \in 1..Len(snapshot.asks) |->
                  PriceLevel(float[snapshot.asks[i][1]], float[snapshot.asks[i][2]])],
     last_update_id |-> snapshot.lastUpdateId,
     _last_u |-> snapshot.lastUpdateId,
     _initialized |-> TRUE]

C33_SmallLevelKeepsWall ==
    [][ op' = "WallTracker.update" =>
          /\ \A k \in TrackedKeys(wall_trackers[sym']) :
                ( /\ InBook(orderbook', k)
                  /\ ~SizedInBook(orderbook', k, wall_trackers[sym'].threshold) ) =>
                    /\ k \in TrackedKeys(wall_trackers'[sym'])
                    /\ WallOf(wall_trackers'[sym'], k) = WallOf(wall_trackers[sym'], k)
                    /\ k \notin EventKeys(wall_events')
          /\ \A k \in TrackedKeys(wall_trackers[sym']) \ TrackedKeys(wall_trackers'[sym']) :
                ~InBook(orderbook', k) ]_vars

\* C33 happens: a wall that had grown to 7 lots is still tracked with 7 lots
\* and its earlier last_seen after an update whose book holds 4 lots, under
\* the threshold, at its price
C33_Witness ==
    /\ op = "WallTracker.update"
    /\ orderbook.bids # <<>> /\ orderbook.bids[1] = PriceLevel(1000, 4)
    /\ \E i \in 1..Len(wall_trackers[sym].walls) :
        LET w == wall_trackers[sym].walls[i]
        IN  /\ w.price = 1000 /\ w.side = BID
            /\ w.current_qty = 7 /\ w.replenish_count = 1
            /\ w.last_seen < now


\* the steps of start() between two websocket sessions
ReconnectOps ==
    {"ws_connect", "ws_connect_raised", "ws_raised", "ws_error_message", "ws_remote_close",
     "sleep"}

\* C34: a step of the reconnect loop (the socket raising, closing or sending
\* an ERROR message, the sleep, the next ws_connect) changes no
\* OrderBookManager, WallTracker or OFICalculator; an initialize() changes
\* the OrderBookManager of its symbol only: every WallTracker and every
\* OFICalculator, previous levels, EMA and history included, and the
\* OrderBookManager of every other symbol are as before, and an initialize()
\* that fails changes none of them.
C34_DerivedStateKept ==
    [][ /\ op' \in ReconnectOps =>
              /\ managers' = managers
              /\ wall_trackers' = wall_trackers
              /\ ofi_calculators' = ofi_calculators
        /\ op' = "initialize" =>
              /\ wall_trackers' = wall_trackers
              /\ ofi_calculators' = ofi_calculators
              /\ \A s \in symbols \ {sym'} : managers'[s] = managers[s]
        /\ op' = "initialize_failed" =>
              /\ managers' = managers
              /\ wall_trackers' = wall_trackers
              /\ ofi_calculators' = ofi_calculators ]_vars

\* C34 happens: a symbol has just been re-initialized after a rejected
\* update; its tracker still holds walls and its OFICalculator the previous
\* levels, and the other symbol, which had accepted an update, keeps its ids
C34_Witness ==
    /\ op = "initialize" /\ pc = "read"
    /\ managers[sym].last_update_id = 1 /\ accepted_u[sym] = 0
    /\ wall_trackers[sym].walls # <<>>
    /\ ~ofi_calculators[sym]._prev_is_none
    /\ \E s \in symbols \ {sym} :
          /\ accepted_u[s] > 0
          /\ managers[s].last_update_id = accepted_u[s]
          /\ ~ofi_calculators[s]._prev_is_none


\* C35: the handling of a depth event that process_update gives up with a
\* KeyError (u, b or a missing) or a ValueError (a level that does not parse)
\* leaves the symbol's OrderBookManager as it was: bids, asks, last_update_id
\* and _last_u are unchanged.
C35_DroppedEventLeavesBook ==
    [][ (op' = "_handle_message" /\ ret' \in {"KeyError", "ValueError"}) =>
            managers' = managers ]_vars

====
